---- MODULE Spec2Model ----
(***************************************************************************)
(* Model of the Inngest MCP server: the InngestClient (the HTTP client     *)
(* with its authentication rule, candidate-path fallback and diagnostic    *)
(* snapshot) and the tool handlers of index.ts that call it.               *)
(*                                                                         *)
(* JavaScript values are records tagged by t; an object keeps its members  *)
(* in insertion order (m, a sequence of [k, v]).  Strings built by         *)
(* template literals (URLs, error messages, rendered text) are sequences   *)
(* of string tokens, so that String.includes is membership of a token.     *)
(* Record constructors list their fields in the order of FieldOrder, which  *)
(* is the order TLC normalises a record to (the order in which the names   *)
(* first occur in the module).                                             *)
(*                                                                         *)
(* Spec is one invocation of a client operation or of a tool; ApiSpec is   *)
(* the generic request operation called repeatedly on one client;          *)
(* OverlapSpec is two tool invocations interleaved at their awaits;        *)
(* ToolSpec is a tool call from its arrival, through its input schema;     *)
(* RenderSpec is the rendering of the runs a service may return;           *)
(* ConfigSpec is getConfig and a caller writing to the object it returns;  *)
(* FairSpec is Spec with every outstanding request settling; ExhaustSpec   *)
(* is two candidate loops interleaved on one client.                       *)
(***************************************************************************)
EXTENDS Integers, Sequences, FiniteSets, TLC

VARIABLES
  config,        \* InngestClient.config
  lastResponse,  \* InngestClient._lastResponse
  lastError,     \* InngestClient._lastError
  clock,         \* the wall clock read by Date.now() / new Date()
  pc,            \* per invocation: "idle", "await" (a fetch is outstanding), "done"
  call,          \* per invocation: the operation and its arguments
  idx,           \* per invocation: position in possibleEndpoints
  localErr,      \* per invocation: the local variable lastError of the candidate loops
  sent,          \* per invocation: the fetch calls issued, in order
  recv,          \* per invocation: the responses fetch settled with, in order
  result,        \* per invocation: how the client operation ended
  reply,         \* per invocation: what the tool handler returned
  log,           \* the order in which invocations began and responses were processed
  request        \* per invocation: the tool call as it arrived at the server

FieldOrder ==
  [t |-> 0, s |-> 0, n |-> 0, b |-> 0, a |-> 0, m |-> 0, k |-> 0, v |-> 0,
   json |-> 0, chars |-> 0, digits |-> 0, members |-> 0, key |-> 0,
   signingKey |-> 0, eventKey |-> 0, baseUrl |-> 0, env |-> 0,
   net |-> 0, url |-> 0, method |-> 0, headers |-> 0,
   status |-> 0, statusText |-> 0, body |-> 0,
   via |-> 0, op |-> 0, eventId |-> 0, eventName |-> 0, functionId |-> 0,
   runId |-> 0, action |-> 0, limit |-> 0, params |-> 0,
   startedAfter |-> 0, startedBefore |-> 0, condition |-> 0,
   data |-> 0, e |-> 0, message |-> 0, timestamp |-> 0,
   kind |-> 0, val |-> 0, msg |-> 0, text |-> 0, then |-> 0,
   go |-> 0, outcome |-> 0, endpoint |-> 0, options |-> 0, lit |-> 0, date |-> 0,
   tool |-> 0, args |-> 0, ref |-> 0]

vars == <<config, lastResponse, lastError, clock, pc, call, idx, localErr, sent, recv,
          result, reply, log, request>>

\* ------------------------------------------------------------------------
\* JavaScript values
\* ------------------------------------------------------------------------
Undefined == [t |-> "undefined"]
JsNull == [t |-> "null"]
JsStr(s) == [t |-> "string", s |-> s]
JsNum(n) == [t |-> "number", n |-> n]
JsObj(m) == [t |-> "object", m |-> m]
JsArr(a) == [t |-> "array", a |-> a]
Member(k, v) == [k |-> k, v |-> v]

\* `key in obj`
HasKey(obj, key) == \E i \in DOMAIN obj.m : obj.m[i].k = key

\* obj.key (undefined when the key is absent, or obj is not an object)
Get(obj, key) ==
  IF obj.t = "object" /\ HasKey(obj, key)
  THEN obj.m[CHOOSE i \in DOMAIN obj.m : obj.m[i].k = key].v
  ELSE Undefined

\* JavaScript truthiness of the values the program tests
Truthy(v) ==
  CASE v.t = "undefined" -> FALSE
    [] v.t = "null" -> FALSE
    [] v.t = "string" -> v.s # ""
    [] v.t = "number" -> v.n # 0
    [] OTHER -> TRUE

\* String.prototype.includes on a token string
Includes(str, tok) == \E i \in DOMAIN str : str[i] = tok

\* ------------------------------------------------------------------------
\* JSON
\* ------------------------------------------------------------------------
\* JSON.stringify: the text of a value.  A member whose value is undefined is
\* left out; the members keep their insertion order.
RECURSIVE JsonStringify(_)
RECURSIVE StringifyMembers(_)
StringifyMembers(m) ==
  IF m = <<>> THEN <<>>
  ELSE IF Head(m).v.t = "undefined" THEN StringifyMembers(Tail(m))
       ELSE <<[key |-> Head(m).k, text |-> JsonStringify(Head(m).v)]>>
            \o StringifyMembers(Tail(m))

JsonStringify(v) ==
  CASE v.t = "object" -> [json |-> "object", members |-> StringifyMembers(v.m)]
    [] v.t = "string" -> [json |-> "string", chars |-> v.s]
    [] v.t = "number" -> [json |-> "number", digits |-> v.n]
    [] OTHER -> [json |-> "null"]

\* What the receiving service reads back from a request body.
RECURSIVE JsonRead(_)
RECURSIVE ReadMembers(_)
ReadMembers(ms) ==
  IF ms = <<>> THEN <<>>
  ELSE <<Member(Head(ms).key, JsonRead(Head(ms).text))>> \o ReadMembers(Tail(ms))

JsonRead(text) ==
  CASE text.json = "object" -> JsObj(ReadMembers(text.members))
    [] text.json = "string" -> JsStr(text.chars)
    [] text.json = "number" -> JsNum(text.digits)
    [] OTHER -> JsNull

\* The runs the remote service knows (WorkflowRun); timestamps are ISO strings.
RunA ==
  JsObj(<<Member("run_id", JsStr("run-1")),
          Member("run_started_at", JsStr("2024-01-01T00:00:00Z")),
          Member("function_id", JsStr("func-1")),
          Member("status", JsStr("Completed")),
          Member("ended_at", JsStr("2024-01-01T00:01:30Z"))>>)

RunB ==
  JsObj(<<Member("run_id", JsStr("run-2")),
          Member("run_started_at", JsStr("2024-01-01T00:00:00Z")),
          Member("function_id", JsStr("func-1")),
          Member("status", JsStr("Running"))>>)

\* Raw response bodies the remote service answers with.
EmptyBody == ""
NullBody == "null"
EmptyObjectBody == "{}"
RunEnvelopeBody == "{\"data\":{\"run_id\":\"run-1\",...}}"
BareRunBody == "{\"run_id\":\"run-2\",...}"
RunListBody == "{\"data\":[{\"run_id\":\"run-1\",...},{\"run_id\":\"run-2\",...}]}"
EventIdBody == "{\"id\":\"evt-1\"}"
NotFoundBody == "{\"error\":\"not found\"}"

OkBodies ==
  {EmptyBody, NullBody, EmptyObjectBody, RunEnvelopeBody, BareRunBody, RunListBody,
   EventIdBody}

\* Response.json(): the parsed body, or a SyntaxError for text that is no JSON.
JsonParses(raw) == raw # EmptyBody

JsonParse(raw) ==
  CASE raw = NullBody -> JsNull
    [] raw = EmptyObjectBody -> JsObj(<<>>)
    [] raw = RunEnvelopeBody -> JsObj(<<Member("data", RunA)>>)
    [] raw = BareRunBody -> RunB
    [] raw = RunListBody -> JsObj(<<Member("data", JsArr(<<RunA, RunB>>))>>)
    [] raw = EventIdBody -> JsObj(<<Member("id", JsStr("evt-1"))>>)
    [] raw = NotFoundBody -> JsObj(<<Member("error", JsStr("not found"))>>)

SyntaxErrorMessage == <<"Unexpected end of JSON input">>

\* ------------------------------------------------------------------------
\* What fetch settles with
\* ------------------------------------------------------------------------
NetworkFailure == [net |-> "rejected"]
HttpResponse(status, statusText, body) ==
  [net |-> "response", status |-> status, statusText |-> statusText, body |-> body]

\* Response.ok
ResponseOk(resp) == resp.status >= 200 /\ resp.status <= 299

Responses ==
  {NetworkFailure, HttpResponse(404, "Not Found", NotFoundBody)}
    \cup {HttpResponse(200, "OK", b) : b \in OkBodies}

FetchFailedMessage == <<"fetch failed">>

\* ------------------------------------------------------------------------
\* InngestClient: configuration
\* ------------------------------------------------------------------------
LocalDevKey == "local-dev-key"
SigningKeys == {"", LocalDevKey, "test-key"}

CloudUrl == <<"https://", "api.inngest.com">>
LocalhostUrl == <<"http://", "localhost", ":8288">>
LoopbackUrl == <<"http://", "127.0.0.1", ":8288">>
TunnelUrl == <<"https://", "inngest.", "localhost", ".example.com">>
BaseUrls == {CloudUrl, LocalhostUrl, LoopbackUrl, TunnelUrl}

Envs == {Undefined, JsStr("production")}

Configs ==
  [signingKey : SigningKeys, eventKey : {Undefined}, baseUrl : BaseUrls, env : Envs]

\* A faulty test: the loopback address is not recognised as local.
IsLocalLoopbackMissed(cfg) == Includes(cfg.baseUrl, "localhost")

\* this.config.baseUrl.includes('localhost') || this.config.baseUrl.includes('127.0.0.1')
IsLocal(cfg) == Includes(cfg.baseUrl, "localhost") \/ Includes(cfg.baseUrl, "127.0.0.1")

\* ------------------------------------------------------------------------
\* InngestClient.apiRequest
\* ------------------------------------------------------------------------
NoHeaders == [h \in {} |-> <<>>]

\* A faulty rule: the loopback address is not recognised as local.
AddsAuthorizationLoopbackMissed(cfg) ==
  /\ cfg.signingKey # ""
  /\ cfg.signingKey # LocalDevKey
  /\ ~Includes(cfg.baseUrl, "localhost")

\* A faulty rule: the sentinel key is sent like any other key.
AddsAuthorizationSentinelSent(cfg) ==
  /\ cfg.signingKey # ""
  /\ ~Includes(cfg.baseUrl, "localhost")
  /\ ~Includes(cfg.baseUrl, "127.0.0.1")

\* The condition under which apiRequest adds the Authorization header.
AddsAuthorization(cfg) ==
  /\ cfg.signingKey # ""
  /\ cfg.signingKey # LocalDevKey
  /\ ~Includes(cfg.baseUrl, "localhost")
  /\ ~Includes(cfg.baseUrl, "127.0.0.1")

\* A faulty merge: the default is spread after the caller's headers.
ApiRequestHeadersDefaultLast(cfg, callerHeaders) ==
  LET merged == ("Content-Type" :> <<"application/json">>) @@ callerHeaders
      withEnv == IF Truthy(cfg.env)
                 THEN ("X-Inngest-Env" :> <<cfg.env.s>>) @@ merged
                 ELSE merged
  IN IF AddsAuthorization(cfg)
     THEN ("Authorization" :> <<"Bearer ", cfg.signingKey>>) @@ withEnv
     ELSE withEnv

\* The headers of the outgoing request; a header value is a token string.
ApiRequestHeaders(cfg, callerHeaders) ==
  LET merged == callerHeaders @@ ("Content-Type" :> <<"application/json">>)
      withEnv == IF Truthy(cfg.env)
                 THEN ("X-Inngest-Env" :> <<cfg.env.s>>) @@ merged
                 ELSE merged
  IN IF AddsAuthorization(cfg)
     THEN ("Authorization" :> <<"Bearer ", cfg.signingKey>>) @@ withEnv
     ELSE withEnv

\* The call fetch(url, {...options, headers}).
ApiRequestFetch(cfg, endpoint, options) ==
  [url |-> cfg.baseUrl \o endpoint,
   method |-> options.method,
   headers |-> ApiRequestHeaders(cfg, options.headers),
   body |-> options.body]

GetOptions == [method |-> "GET", headers |-> NoHeaders, body |-> Undefined]
PostOptions(body) == [method |-> "POST", headers |-> NoHeaders, body |-> body]

\* A faulty message: the body of the response is not read.
ApiErrorMessageWithoutBody(resp) ==
  <<"Inngest API error: ", ToString(resp.status), " ", resp.statusText>>

ApiErrorMessage(resp) ==
  <<"Inngest API error: ", ToString(resp.status), " ", resp.statusText, " - ", resp.body>>

\* How apiRequest ends once fetch has settled with resp.
\* A faulty end of apiRequest: response.ok is not looked at.
ApiRequestSettleStatusUnchecked(resp) ==
  IF resp.net = "rejected" THEN [kind |-> "throw", msg |-> FetchFailedMessage]
  ELSE IF ~JsonParses(resp.body) THEN [kind |-> "throw", msg |-> SyntaxErrorMessage]
  ELSE [kind |-> "return", val |-> JsonParse(resp.body)]

ApiRequestSettle(resp) ==
  IF resp.net = "rejected" THEN [kind |-> "throw", msg |-> FetchFailedMessage]
  ELSE IF ~ResponseOk(resp) THEN [kind |-> "throw", msg |-> ApiErrorMessage(resp)]
  ELSE IF ~JsonParses(resp.body) THEN [kind |-> "throw", msg |-> SyntaxErrorMessage]
  ELSE [kind |-> "return", val |-> JsonParse(resp.body)]

\* A faulty snapshot: a snapshot once stored is kept (_lastResponse ??= ...).
SnapshotKeptIfSet(url, resp, now) ==
  IF lastResponse # Undefined THEN lastResponse
  ELSE [url |-> url, status |-> resp.status, data |-> JsonParse(resp.body),
        timestamp |-> now]

\* A faulty snapshot: the endpoint is stored in place of the full URL.
SnapshotOfEndpoint(url, resp, now) ==
  [url |-> Tail(Tail(url)), status |-> resp.status, data |-> JsonParse(resp.body),
   timestamp |-> now]

\* The value apiRequest stores in _lastResponse on success.
Snapshot(url, resp, now) ==
  [url |-> url, status |-> resp.status, data |-> JsonParse(resp.body), timestamp |-> now]

\* ------------------------------------------------------------------------
\* InngestClient: the operations
\* ------------------------------------------------------------------------
Return(v) == [kind |-> "return", val |-> v]
Throw(msg) == [kind |-> "throw", msg |-> msg]
Pending == [kind |-> "pending"]

\* let lastError: Error | null
NoError == [e |-> "null"]
ErrorOf(msg) == [e |-> "Error", message |-> msg]

DevModeMessage(what) ==
  <<what, " ", "not available in development mode",
    ". Please use Inngest Cloud for run management features.">>

\* A faulty text: the caught error is not read.
LastErrorTextUnread(lerr) == <<"Unknown error">>

\* lastError?.message || 'Unknown error'
LastErrorText(lerr) ==
  IF lerr.e = "Error" /\ lerr.message # <<>> THEN lerr.message ELSE <<"Unknown error">>

\* TypeError of `'data' in response` when the response is no object
InOperatorMessage == <<"Cannot use 'in' operator to search for 'data' in null">>
\* TypeError of `response.data` when the response is null
ReadOfNullMessage == <<"Cannot read properties of null (reading 'data')">>

EventRunsEndpoint(eventId) == <<"/v1/events/", eventId, "/runs">>
FunctionRunsEndpoint(functionId, limit) ==
  <<"/v1/functions/", functionId, "/runs?limit=", ToString(limit)>>
CancellationsEndpoint == <<"/v1/cancellations">>
EventsEndpoint == <<"/v1/events">>

RunDetailsEndpoints(runId) ==
  << <<"/v0/runs/", runId>>, <<"/v1/runs/", runId>>, <<"/runs/", runId>> >>

CancelEndpoints(runId) ==
  << <<"/v0/runs/", runId, "/cancel">>,
     <<"/v1/runs/", runId, "/cancel">>,
     <<"/runs/", runId, "/cancel">> >>

\* A faulty list: the "retry" paths come before the "replay" paths.
ReplayEndpointsRetryFirst(runId) ==
  << <<"/v0/runs/", runId, "/retry">>,
     <<"/v1/runs/", runId, "/retry">>,
     <<"/runs/", runId, "/retry">>,
     <<"/v0/runs/", runId, "/replay">>,
     <<"/v1/runs/", runId, "/replay">>,
     <<"/runs/", runId, "/replay">> >>

ReplayEndpoints(runId) ==
  << <<"/v0/runs/", runId, "/replay">>,
     <<"/v1/runs/", runId, "/replay">>,
     <<"/runs/", runId, "/replay">>,
     <<"/v0/runs/", runId, "/retry">>,
     <<"/v1/runs/", runId, "/retry">>,
     <<"/runs/", runId, "/retry">> >>

\* response.data || []
DataOrEmpty(response) ==
  IF Truthy(Get(response, "data")) THEN Get(response, "data") ELSE JsArr(<<>>)

\* A faulty end: a failed request gives an empty list of runs.
GetEventRunsEndSwallows(r) ==
  IF r.kind = "throw" THEN Return(JsArr(<<>>))
  ELSE IF r.val.t = "null" THEN Throw(ReadOfNullMessage)
  ELSE Return(DataOrEmpty(r.val))

\* getEventRuns, after apiRequest has ended with r
GetEventRunsEnd(r) ==
  IF r.kind = "throw" THEN r
  ELSE IF r.val.t = "null" THEN Throw(ReadOfNullMessage)
  ELSE Return(DataOrEmpty(r.val))

\* A faulty end: the error is rethrown whatever the base URL.
GetFunctionRunsEndRethrows(cfg, r) == GetEventRunsEnd(r)

\* getFunctionRuns, after apiRequest has ended with r
GetFunctionRunsEnd(cfg, r) ==
  LET tried == GetEventRunsEnd(r)
  IN IF tried.kind = "return" THEN tried
     ELSE IF IsLocal(cfg) THEN Return(JsArr(<<>>))
     ELSE tried

\* A faulty loop body: the envelope is returned without being unwrapped.
RunDetailsStepKeepsEnvelope(r) ==
  IF r.kind = "throw" THEN [msg |-> r.msg, then |-> "catch"]
  ELSE IF r.val.t # "object" /\ r.val.t # "array"
       THEN [msg |-> InOperatorMessage, then |-> "catch"]
  ELSE IF r.val.t = "object" /\ (HasKey(r.val, "data") \/ HasKey(r.val, "run_id"))
       THEN [val |-> r.val, then |-> "return"]
  ELSE [then |-> "next"]

\* The body of getRunDetails' loop, after apiRequest has ended with r:
\* "return" a run, "catch" an error, or "next" (neither format, nothing caught).
RunDetailsStep(r) ==
  IF r.kind = "throw" THEN [msg |-> r.msg, then |-> "catch"]
  ELSE IF r.val.t # "object" /\ r.val.t # "array"
       THEN [msg |-> InOperatorMessage, then |-> "catch"]
  ELSE IF r.val.t = "object" /\ HasKey(r.val, "data") /\ Truthy(Get(r.val, "data"))
       THEN [val |-> Get(r.val, "data"), then |-> "return"]
  ELSE IF r.val.t = "object" /\ HasKey(r.val, "run_id")
       THEN [val |-> r.val, then |-> "return"]
  ELSE [then |-> "next"]

\* The body of cancelRun's and replayRun's loop
RunActionStep(r) ==
  IF r.kind = "throw" THEN [msg |-> r.msg, then |-> "catch"]
  ELSE [val |-> JsObj(<<Member("success", [t |-> "boolean", b |-> TRUE])>>),
        then |-> "return"]

RunDetailsExhausted(runId, lerr) ==
  <<"Failed to get run details for ", runId, ". Last error: ">> \o LastErrorText(lerr)
CancelExhausted(runId, lerr) ==
  <<"Failed to cancel run ", runId, ". Last error: ">> \o LastErrorText(lerr)
ReplayExhausted(runId, lerr) ==
  <<"Failed to replay run ", runId, ". Last error: ">> \o LastErrorText(lerr)

\* The error thrown after the loop of the invocation cl
ExhaustedMessage(cl, lerr) ==
  CASE cl.op = "getRunDetails" -> RunDetailsExhausted(cl.runId, lerr)
    [] cl.op = "cancelRun" -> CancelExhausted(cl.runId, lerr)
    [] cl.op = "replayRun" -> ReplayExhausted(cl.runId, lerr)

\* A faulty body: every filter field is sent, an omitted one as null.
BulkCancelBodyWithNulls(params) ==
  JsObj(<<Member("function_id",
                 IF Truthy(params.functionId) THEN params.functionId ELSE JsNull),
          Member("started_after",
                 IF Truthy(params.startedAfter) THEN params.startedAfter ELSE JsNull),
          Member("started_before",
                 IF Truthy(params.startedBefore) THEN params.startedBefore ELSE JsNull),
          Member("if", IF Truthy(params.condition) THEN params.condition ELSE JsNull)>>)

\* bulkCancelRuns: requestBody, built member by member
BulkCancelBody(params) ==
  JsObj((IF Truthy(params.functionId)
         THEN <<Member("function_id", params.functionId)>> ELSE <<>>)
     \o (IF Truthy(params.startedAfter)
         THEN <<Member("started_after", params.startedAfter)>> ELSE <<>>)
     \o (IF Truthy(params.startedBefore)
         THEN <<Member("started_before", params.startedBefore)>> ELSE <<>>)
     \o (IF Truthy(params.condition)
         THEN <<Member("if", params.condition)>> ELSE <<>>))

\* A faulty end: the error of the request is rethrown on a local base URL too.
BulkCancelEndUnreplaced(cfg, r) == r

\* bulkCancelRuns, after apiRequest has ended with r
BulkCancelEnd(cfg, r) ==
  IF r.kind = "return" THEN r
  ELSE IF IsLocal(cfg) THEN Throw(DevModeMessage("Bulk cancellation"))
  ELSE r

\* A faulty body: the payload is spread into the event instead of nested.
SendEventBodyFlattened(eventName, data, now) ==
  JsObj(<<Member("name", JsStr(eventName))>> \o data.m
        \o <<Member("timestamp", JsNum(now))>>)

\* sendEvent: the object given to JSON.stringify
SendEventBody(eventName, data, now) ==
  JsObj(<<Member("name", JsStr(eventName)), Member("data", data),
          Member("timestamp", JsNum(now))>>)

\* getLastResponse() and getLastError(), given the two fields
GetLastResponse(lresp) == lresp
GetLastError(lerr) == lerr

\* ------------------------------------------------------------------------
\* index.ts: the tool handlers
\* ------------------------------------------------------------------------
\* A rendered text is a sequence of parts: literal tokens, dates, JSON texts.
Lit(s) == [lit |-> s]
Lits(tokens) == [i \in DOMAIN tokens |-> Lit(tokens[i])]
TextContent(parts) == [kind |-> "content", text |-> parts]
NoReply == [kind |-> "none"]
NoRequest == [tool |-> "none"]

\* `${value}` in a template literal
TemplateString(v) ==
  CASE v.t = "string" -> v.s
    [] v.t = "number" -> ToString(v.n)
    [] v.t = "undefined" -> "undefined"
    [] v.t = "null" -> "null"
    [] v.t = "array" -> "<array>"
    [] OTHER -> "[object Object]"

\* new Date(value).getTime(), for the timestamps the service uses
DateIsValid(v) ==
  v.t = "string"
    /\ v.s \in {"2023-12-31T23:59:58.800Z", "2024-01-01T00:00:00Z",
                "2024-01-01T00:00:00.400Z", "2024-01-01T00:00:01.600Z",
                "2024-01-01T00:01:30Z"}
DateGetTime(v) ==
  CASE v.s = "2023-12-31T23:59:58.800Z" -> -1200
    [] v.s = "2024-01-01T00:00:00Z" -> 0
    [] v.s = "2024-01-01T00:00:00.400Z" -> 400
    [] v.s = "2024-01-01T00:00:01.600Z" -> 1600
    [] v.s = "2024-01-01T00:01:30Z" -> 90000

\* new Date(value).toLocaleString()
LocaleString(v) ==
  IF DateIsValid(v) THEN [date |-> DateGetTime(v)] ELSE Lit("Invalid Date")

\* A faulty rounding: the fraction is cut off (Math.floor).
MathFloorDiv(n, d) == n \div d

\* Math.round(n / d) for d > 0: the nearest integer, a half rounding up
MathRoundDiv(n, d) == (2 * n + d) \div (2 * d)

\* Math.round((new Date(end).getTime() - new Date(start).getTime()) / 1000) as text
DurationText(start, end) ==
  IF DateIsValid(start) /\ DateIsValid(end)
  THEN ToString(MathRoundDiv(DateGetTime(end) - DateGetTime(start), 1000))
  ELSE "NaN"

\* Array.prototype.slice(0, end)
Slice0(a, end) ==
  LET stop == IF end < 0
              THEN (IF Len(a) + end < 0 THEN 0 ELSE Len(a) + end)
              ELSE (IF end > Len(a) THEN Len(a) ELSE end)
  IN SubSeq(a, 1, stop)

\* error instanceof Error ? error.message : String(error); the client throws Errors only
CaughtText(prefix, outcome) == TextContent(<<Lit(prefix)>> \o Lits(outcome.msg))

\* send_event, once sendEvent has ended
SendEventReply(cl, outcome) ==
  IF outcome.kind = "throw" THEN CaughtText("**Error sending event:** ", outcome)
  ELSE IF outcome.val.t = "null"
       THEN TextContent(<<Lit("**Error sending event:** "),
                          Lit("Cannot read properties of null (reading 'id')")>>)
  ELSE TextContent(<<Lit("**Event sent successfully**"),
                     Lit("**Event Name:** "), Lit(cl.eventName),
                     Lit("**Event ID:** "), Lit(TemplateString(Get(outcome.val, "id"))),
                     Lit("**Data:** "), JsonStringify(cl.data)>>)

\* get_event_runs: the section of one run
RunSection(run, index) ==
  <<Lit("## Run "), Lit(ToString(index)),
    Lit("**Run ID:** "), Lit(TemplateString(Get(run, "run_id"))),
    Lit("**Status:** "), Lit(TemplateString(Get(run, "status"))),
    Lit("**Started:** "), LocaleString(Get(run, "run_started_at"))>>
  \o (IF Truthy(Get(run, "ended_at"))
      THEN <<Lit("**Ended:** "), LocaleString(Get(run, "ended_at")),
             Lit("**Duration:** "),
             Lit(DurationText(Get(run, "run_started_at"), Get(run, "ended_at"))), Lit("s")>>
      ELSE <<>>)
  \o (IF Truthy(Get(run, "output"))
      THEN <<Lit("**Output:** "), JsonStringify(Get(run, "output"))>>
      ELSE <<>>)

RECURSIVE RunSections(_, _)
RunSections(runs, from) ==
  IF runs = <<>> THEN <<>>
  ELSE RunSection(Head(runs), from) \o RunSections(Tail(runs), from + 1)

\* get_event_runs, once getEventRuns has ended
EventRunsReply(cl, outcome) ==
  IF outcome.kind = "throw" THEN CaughtText("Error getting event runs: ", outcome)
  ELSE IF outcome.val.t # "array"
       THEN TextContent(<<Lit("Error getting event runs: "),
                          Lit("runs.slice is not a function")>>)
  ELSE IF Len(outcome.val.a) = 0
       THEN TextContent(<<Lit("No runs found for event ID: "), Lit(cl.eventId)>>)
  ELSE TextContent(<<Lit("# Event Runs: "), Lit(cl.eventId),
                     Lit("**Total runs:** "), Lit(ToString(Len(outcome.val.a)))>>
                   \o RunSections(Slice0(outcome.val.a, cl.limit), 1))

\* get_run_details, once getRunDetails has ended
RunDetailsReply(cl, outcome) ==
  IF outcome.kind = "throw" THEN CaughtText("Error getting run details: ", outcome)
  ELSE LET run == outcome.val
       IN TextContent(
            <<Lit("# Run Details: "), Lit(cl.runId),
              Lit("**Run ID:** "), Lit(TemplateString(Get(run, "run_id"))),
              Lit("**Function ID:** "), Lit(TemplateString(Get(run, "function_id"))),
              Lit("**Function Version:** "),
              Lit(TemplateString(Get(run, "function_version"))),
              Lit("**Environment ID:** "), Lit(TemplateString(Get(run, "environment_id"))),
              Lit("**Event ID:** "), Lit(TemplateString(Get(run, "event_id"))),
              Lit("**Status:** "), Lit(TemplateString(Get(run, "status"))),
              Lit("**Started:** "), LocaleString(Get(run, "run_started_at"))>>
            \o (IF Truthy(Get(run, "ended_at"))
                THEN <<Lit("**Ended:** "), LocaleString(Get(run, "ended_at")),
                       Lit("**Duration:** "),
                       Lit(DurationText(Get(run, "run_started_at"), Get(run, "ended_at"))),
                       Lit("s")>>
                ELSE <<>>)
            \o (IF Truthy(Get(run, "output"))
                THEN <<Lit("**Output:**"), JsonStringify(Get(run, "output"))>>
                ELSE <<>>)
            \o <<Lit("> **Note:** Step-by-step execution timeline is only available in the dashboard")>>)

\* A faulty handler: the error of the client leaves the handler.
ManageRunReplyUncaught(cl, outcome) ==
  IF outcome.kind = "throw" THEN [kind |-> "protocol error"]
  ELSE IF cl.action = "cancel" THEN TextContent(<<Lit("Cancelled run "), Lit(cl.runId)>>)
  ELSE TextContent(<<Lit("Replayed run "), Lit(cl.runId)>>)

\* A faulty handler: the result text is built before the client call is awaited.
ManageRunReplyUnawaited(cl, outcome) ==
  IF cl.action = "cancel" THEN TextContent(<<Lit("Cancelled run "), Lit(cl.runId)>>)
  ELSE TextContent(<<Lit("Replayed run "), Lit(cl.runId)>>)

\* manage_run, once cancelRun or replayRun has ended
ManageRunReply(cl, outcome) ==
  IF outcome.kind = "throw" THEN CaughtText("Error managing run: ", outcome)
  ELSE IF cl.action = "cancel" THEN TextContent(<<Lit("Cancelled run "), Lit(cl.runId)>>)
  ELSE TextContent(<<Lit("Replayed run "), Lit(cl.runId)>>)

\* What the caller of the invocation gets back: nothing more than the client's
\* outcome for a direct call, the handler's response for a tool call.
ToolReply(cl, outcome) ==
  CASE cl.via = "send_event" -> SendEventReply(cl, outcome)
    [] cl.via = "get_event_runs" -> EventRunsReply(cl, outcome)
    [] cl.via = "get_run_details" -> RunDetailsReply(cl, outcome)
    [] cl.via = "manage_run" -> ManageRunReply(cl, outcome)
    [] OTHER -> NoReply

\* ------------------------------------------------------------------------
\* The state machine
\* ------------------------------------------------------------------------
\* The invocations that may be in progress; Spec runs the first one alone.
Procs == {"p1", "p2"}

MaxClock == 1

EventIds == {"event-1"}
FunctionIds == {"func-1"}
RunIds == {"run-1"}
EventNames == {"test.event", "user.created"}
Payloads ==
  {JsObj(<<>>),
   JsObj(<<Member("message", JsStr("hello"))>>),
   JsObj(<<Member("user", JsObj(<<Member("id", JsNum(7))>>)), Member("plan", JsStr("pro"))>>)}
DefaultFunctionRunsLimit == 20
FunctionRunsLimits == {DefaultFunctionRunsLimit, 5}
DefaultToolLimit == 10
ToolLimits == {DefaultToolLimit, 1}
OptionalStrings(v) == {Undefined, JsStr(""), JsStr(v)}
BulkCancelParams ==
  [functionId : OptionalStrings("func-1"),
   startedAfter : OptionalStrings("2024-01-01T00:00:00Z"),
   startedBefore : OptionalStrings("2024-01-01T12:00:00Z"),
   condition : OptionalStrings("status == 'Running'")]

Init ==
  /\ config \in Configs
  /\ lastResponse = Undefined
  /\ lastError = Undefined
  /\ clock = 0
  /\ pc = [c \in Procs |-> "idle"]
  /\ call = [c \in Procs |-> [via |-> "none", op |-> "none"]]
  /\ idx = [c \in Procs |-> 0]
  /\ localErr = [c \in Procs |-> NoError]
  /\ sent = [c \in Procs |-> <<>>]
  /\ recv = [c \in Procs |-> <<>>]
  /\ result = [c \in Procs |-> Pending]
  /\ reply = [c \in Procs |-> NoReply]
  /\ log = <<>>
  /\ request = [c \in Procs |-> NoRequest]

\* Time passes.
Tick ==
  /\ clock < MaxClock
  /\ clock' = clock + 1
  /\ UNCHANGED <<config, lastResponse, lastError, pc, call, idx, localErr, sent, recv,
                 result, reply, log, request>>

\* An operation starts and runs up to its first await of fetch.
Begin(c, cl, endpoint, options) ==
  /\ pc[c] = "idle"
  /\ pc' = [pc EXCEPT ![c] = "await"]
  /\ call' = [call EXCEPT ![c] = cl]
  /\ idx' = [idx EXCEPT ![c] = 1]
  /\ sent' = [sent EXCEPT ![c] = <<ApiRequestFetch(config, endpoint, options)>>]
  /\ log' = Append(log, <<c, "begin">>)
  /\ UNCHANGED <<config, lastResponse, lastError, clock, localErr, recv, result, reply,
                 request>>

\* An operation starts and ends without awaiting anything.
Immediately(c, cl, outcome) ==
  /\ pc[c] = "idle"
  /\ pc' = [pc EXCEPT ![c] = "done"]
  /\ call' = [call EXCEPT ![c] = cl]
  /\ result' = [result EXCEPT ![c] = outcome]
  /\ reply' = [reply EXCEPT ![c] = ToolReply(cl, outcome)]
  /\ log' = Append(log, <<c, "begin">>)
  /\ UNCHANGED <<config, lastResponse, lastError, clock, idx, localErr, sent, recv,
                 request>>

\* The outstanding fetch settles with resp and apiRequest ends with r; the
\* operation then ends (outcome), or issues the request to its next candidate.
\* The awaits of fetch and of the body (response.json(), response.text()) are
\* one step: apiRequest reads and writes no field of the client between them.
Settled(c, resp, r, caught, step) ==
  LET url == sent[c][Len(sent[c])].url
  IN /\ recv' = [recv EXCEPT ![c] = Append(@, resp)]
     /\ log' = Append(log, <<c, "settle">>)
     /\ lastResponse' = IF r.kind = "return" THEN Snapshot(url, resp, clock)
                        ELSE lastResponse
     /\ lastError' = IF caught.e = "Error"
                     THEN [message |-> caught.message, timestamp |-> clock]
                     ELSE lastError
     /\ localErr' = IF caught.e = "Error" THEN [localErr EXCEPT ![c] = caught]
                    ELSE localErr
     /\ IF step.go = "fetch"
        THEN /\ idx' = [idx EXCEPT ![c] = @ + 1]
             /\ sent' = [sent EXCEPT
                           ![c] = Append(@, ApiRequestFetch(config, step.endpoint,
                                                            step.options))]
             /\ UNCHANGED <<pc, result, reply>>
        ELSE /\ pc' = [pc EXCEPT ![c] = "done"]
             /\ result' = [result EXCEPT ![c] = step.outcome]
             /\ reply' = [reply EXCEPT ![c] = ToolReply(call[c], step.outcome)]
             /\ UNCHANGED <<idx, sent>>
     /\ UNCHANGED <<config, clock, call, request>>

Done(outcome) == [go |-> "done", outcome |-> outcome]
Fetch(endpoint, options) == [go |-> "fetch", endpoint |-> endpoint, options |-> options]

Awaiting(c, op) == pc[c] = "await" /\ call[c].op = op

\* --- getEventRuns -------------------------------------------------------
GetEventRuns(c, via, eventId, limit) ==
  Begin(c, [via |-> via, op |-> "getEventRuns", eventId |-> eventId, limit |-> limit],
        EventRunsEndpoint(eventId), GetOptions)

GetEventRunsSettle(c, resp) ==
  /\ Awaiting(c, "getEventRuns")
  /\ LET r == ApiRequestSettle(resp)
     IN Settled(c, resp, r, NoError, Done(GetEventRunsEnd(r)))

\* --- getFunctionRuns ----------------------------------------------------
GetFunctionRuns(c, functionId, limit) ==
  Begin(c, [via |-> "client", op |-> "getFunctionRuns", functionId |-> functionId,
            limit |-> limit],
        FunctionRunsEndpoint(functionId, limit), GetOptions)

GetFunctionRunsSettle(c, resp) ==
  /\ Awaiting(c, "getFunctionRuns")
  /\ LET r == ApiRequestSettle(resp)
     IN Settled(c, resp, r, NoError, Done(GetFunctionRunsEnd(config, r)))

\* --- getRunSteps --------------------------------------------------------
\* A faulty getRunSteps: the steps are asked of the service.
GetRunStepsFetches(c, runId) ==
  Begin(c, [via |-> "client", op |-> "getRunSteps", runId |-> runId],
        <<"/v1/runs/", runId, "/steps">>, GetOptions)

GetRunSteps(c, runId) ==
  Immediately(c, [via |-> "client", op |-> "getRunSteps", runId |-> runId],
              Return(JsArr(<<>>)))

\* --- the candidate loops of getRunDetails, cancelRun and replayRun -------
\* One turn of `for (const endpoint of possibleEndpoints)`: the awaited
\* apiRequest has ended with r and the loop body with step; after the last
\* endpoint the operation throws its aggregate error.
\* A faulty loop: the aggregate error is built from the client's _lastError
\* field, not from the loop's own variable.
LoopTurnSharedError(c, resp, r, step, endpoints, options) ==
  LET caught == IF step.then = "catch" THEN ErrorOf(step.msg) ELSE NoError
      lerr == IF step.then = "catch" THEN caught
              ELSE IF lastError = Undefined THEN NoError
              ELSE ErrorOf(lastError.message)
  IN Settled(c, resp, r, caught,
             IF step.then = "return" THEN Done(Return(step.val))
             ELSE IF idx[c] < Len(endpoints)
                  THEN Fetch(endpoints[idx[c] + 1], options)
                  ELSE Done(Throw(ExhaustedMessage(call[c], lerr))))

LoopTurn(c, resp, r, step, endpoints, options) ==
  LET caught == IF step.then = "catch" THEN ErrorOf(step.msg) ELSE NoError
      lerr == IF step.then = "catch" THEN caught ELSE localErr[c]
  IN Settled(c, resp, r, caught,
             IF step.then = "return" THEN Done(Return(step.val))
             ELSE IF idx[c] < Len(endpoints)
                  THEN Fetch(endpoints[idx[c] + 1], options)
                  ELSE Done(Throw(ExhaustedMessage(call[c], lerr))))

\* --- getRunDetails ------------------------------------------------------
GetRunDetails(c, via, runId) ==
  LET cl == [via |-> via, op |-> "getRunDetails", runId |-> runId]
  IN IF IsLocal(config)
     THEN Immediately(c, cl, Throw(DevModeMessage("Run details")))
     ELSE Begin(c, cl, RunDetailsEndpoints(runId)[1], GetOptions)

GetRunDetailsSettle(c, resp) ==
  /\ Awaiting(c, "getRunDetails")
  /\ LET r == ApiRequestSettle(resp)
     IN LoopTurn(c, resp, r, RunDetailsStep(r), RunDetailsEndpoints(call[c].runId),
                 GetOptions)

\* --- cancelRun ----------------------------------------------------------
CancelRun(c, via, runId) ==
  LET cl == [via |-> via, op |-> "cancelRun", runId |-> runId, action |-> "cancel"]
  IN IF IsLocal(config)
     THEN Immediately(c, cl, Throw(DevModeMessage("Run cancellation")))
     ELSE Begin(c, cl, CancelEndpoints(runId)[1], PostOptions(Undefined))

CancelRunSettle(c, resp) ==
  /\ Awaiting(c, "cancelRun")
  /\ LET r == ApiRequestSettle(resp)
     IN LoopTurn(c, resp, r, RunActionStep(r), CancelEndpoints(call[c].runId),
                 PostOptions(Undefined))

\* --- replayRun ----------------------------------------------------------
ReplayRun(c, via, runId) ==
  LET cl == [via |-> via, op |-> "replayRun", runId |-> runId, action |-> "replay"]
  IN IF IsLocal(config)
     THEN Immediately(c, cl, Throw(DevModeMessage("Run replay")))
     ELSE Begin(c, cl, ReplayEndpoints(runId)[1], PostOptions(Undefined))

ReplayRunSettle(c, resp) ==
  /\ Awaiting(c, "replayRun")
  /\ LET r == ApiRequestSettle(resp)
     IN LoopTurn(c, resp, r, RunActionStep(r), ReplayEndpoints(call[c].runId),
                 PostOptions(Undefined))

\* --- bulkCancelRuns -----------------------------------------------------
BulkCancelRuns(c, params) ==
  Begin(c, [via |-> "client", op |-> "bulkCancelRuns", params |-> params],
        CancellationsEndpoint, PostOptions(JsonStringify(BulkCancelBody(params))))

BulkCancelRunsSettle(c, resp) ==
  /\ Awaiting(c, "bulkCancelRuns")
  /\ LET r == ApiRequestSettle(resp)
     IN Settled(c, resp, r, NoError, Done(BulkCancelEnd(config, r)))

\* --- sendEvent ----------------------------------------------------------
SendEvent(c, via, eventName, data) ==
  Begin(c, [via |-> via, op |-> "sendEvent", eventName |-> eventName, data |-> data],
        EventsEndpoint, PostOptions(JsonStringify(SendEventBody(eventName, data, clock))))

SendEventSettle(c, resp) ==
  /\ Awaiting(c, "sendEvent")
  /\ LET r == ApiRequestSettle(resp)
     IN Settled(c, resp, r, NoError, Done(r))

\* --- the invocations ----------------------------------------------------
\* A direct call of a client operation.
ClientCall(c) ==
  \/ \E e \in EventIds : GetEventRuns(c, "client", e, DefaultToolLimit)
  \/ \E f \in FunctionIds, n \in FunctionRunsLimits : GetFunctionRuns(c, f, n)
  \/ \E id \in RunIds : GetRunDetails(c, "client", id)
  \/ \E id \in RunIds : GetRunSteps(c, id)
  \/ \E id \in RunIds : CancelRun(c, "client", id)
  \/ \E id \in RunIds : ReplayRun(c, "client", id)
  \/ \E p \in BulkCancelParams : BulkCancelRuns(c, p)
  \/ \E n \in EventNames, d \in Payloads : SendEvent(c, "client", n, d)

\* A tool call with valid arguments: the handler calls its client operation.
ToolCall(c) ==
  \/ \E n \in EventNames, d \in Payloads : SendEvent(c, "send_event", n, d)
  \/ \E e \in EventIds, n \in ToolLimits : GetEventRuns(c, "get_event_runs", e, n)
  \/ \E id \in RunIds : GetRunDetails(c, "get_run_details", id)
  \/ \E id \in RunIds : CancelRun(c, "manage_run", id)
  \/ \E id \in RunIds : ReplayRun(c, "manage_run", id)

\* The remote service answers, or the transport fails.
Network(c) ==
  \E resp \in Responses :
    \/ GetEventRunsSettle(c, resp)
    \/ GetFunctionRunsSettle(c, resp)
    \/ GetRunDetailsSettle(c, resp)
    \/ CancelRunSettle(c, resp)
    \/ ReplayRunSettle(c, resp)
    \/ BulkCancelRunsSettle(c, resp)
    \/ SendEventSettle(c, resp)

Next == Tick \/ ClientCall("p1") \/ ToolCall("p1") \/ Network("p1")

Spec == Init /\ [][Next]_vars

\* Every request completes: fetch settles each request that is outstanding,
\* with a response or with a rejection.
FairSpec == Spec /\ WF_vars(Network("p1"))

\* ------------------------------------------------------------------------
\* The generic request operation on its own
\* ------------------------------------------------------------------------
\* The client object outlives a call: its caller makes the next one.  What the
\* finished invocation left in _lastResponse and _lastError stays.
Again(c) ==
  /\ pc[c] = "done"
  /\ pc' = [pc EXCEPT ![c] = "idle"]
  /\ call' = [call EXCEPT ![c] = [via |-> "none", op |-> "none"]]
  /\ idx' = [idx EXCEPT ![c] = 0]
  /\ localErr' = [localErr EXCEPT ![c] = NoError]
  /\ sent' = [sent EXCEPT ![c] = <<>>]
  /\ recv' = [recv EXCEPT ![c] = <<>>]
  /\ result' = [result EXCEPT ![c] = Pending]
  /\ reply' = [reply EXCEPT ![c] = NoReply]
  /\ log' = SelectSeq(log, LAMBDA entry : entry[1] # c)
  /\ request' = [request EXCEPT ![c] = NoRequest]
  /\ UNCHANGED <<config, lastResponse, lastError, clock>>

\* options.headers as a caller of apiRequest may pass them
CallerHeaders ==
  {NoHeaders,
   "X-Request-Id" :> <<"req-1">>,
   "Content-Type" :> <<"text/plain">>,
   ("Content-Type" :> <<"text/plain">>) @@ ("X-Request-Id" :> <<"req-1">>)}

ApiEndpoints == {EventsEndpoint, EventRunsEndpoint("event-1")}
ApiOptions == [method : {"GET", "POST"}, headers : CallerHeaders, body : {Undefined}]

\* apiRequest(endpoint, options), up to its await of fetch
ApiRequest(c, endpoint, options) ==
  Begin(c, [via |-> "client", op |-> "apiRequest", endpoint |-> endpoint,
            options |-> options],
        endpoint, options)

\* apiRequest, from the settling of fetch to its end
ApiRequestSettled(c, resp) ==
  /\ Awaiting(c, "apiRequest")
  /\ LET r == ApiRequestSettle(resp)
     IN Settled(c, resp, r, NoError, Done(r))

ApiNext ==
  \/ Tick
  \/ \E e \in ApiEndpoints, o \in ApiOptions : ApiRequest("p1", e, o)
  \/ \E resp \in Responses : ApiRequestSettled("p1", resp)
  \/ Again("p1")

ApiSpec == Init /\ [][ApiNext]_vars

\* ------------------------------------------------------------------------
\* Two tool invocations in progress at once
\* ------------------------------------------------------------------------
\* The handlers are async: while one awaits fetch, the server may start
\* another on the same client.
OverlapInit ==
  /\ Init
  /\ config.signingKey = "test-key"
  /\ config.env = Undefined
  /\ config.baseUrl \in {CloudUrl, LocalhostUrl}

OverlapResponses ==
  {HttpResponse(404, "Not Found", NotFoundBody),
   HttpResponse(200, "OK", RunEnvelopeBody),
   HttpResponse(200, "OK", EventIdBody)}

OverlapCall(c) ==
  \/ \E e \in EventIds : GetEventRuns(c, "get_event_runs", e, DefaultToolLimit)
  \/ SendEvent(c, "send_event", "test.event", JsObj(<<>>))
  \/ \E id \in RunIds : GetRunDetails(c, "get_run_details", id)

OverlapNetwork(c) ==
  \E resp \in OverlapResponses :
    \/ GetEventRunsSettle(c, resp)
    \/ SendEventSettle(c, resp)
    \/ GetRunDetailsSettle(c, resp)

OverlapNext == Tick \/ \E c \in Procs : OverlapCall(c) \/ OverlapNetwork(c)

OverlapSpec == OverlapInit /\ [][OverlapNext]_vars

\* ------------------------------------------------------------------------
\* Two candidate loops in progress at once
\* ------------------------------------------------------------------------
\* Each invocation has its own `let lastError`; _lastError is the client's.
ExhaustResponses ==
  {NetworkFailure,
   HttpResponse(404, "Not Found", NotFoundBody),
   HttpResponse(200, "OK", EmptyObjectBody)}

ExhaustCall(c) ==
  \/ GetRunDetails(c, "client", "run-1")
  \/ CancelRun(c, "client", "run-2")

ExhaustNetwork(c) ==
  \E resp \in ExhaustResponses :
    \/ GetRunDetailsSettle(c, resp)
    \/ CancelRunSettle(c, resp)

ExhaustNext == \E c \in Procs : ExhaustCall(c) \/ ExhaustNetwork(c)

ExhaustSpec == OverlapInit /\ [][ExhaustNext]_vars

\* ------------------------------------------------------------------------
\* index.ts: the input schemas, and the tool calls as they arrive
\* ------------------------------------------------------------------------
Invalid == [kind |-> "invalid"]
Valid(v) == [kind |-> "valid", val |-> v]

ZodString(v) == v.t = "string"
ZodNumber(v) == v.t = "number"
\* z.record(z.unknown())
ZodRecord(v) == v.t = "object"
\* z.enum([...])
ZodEnum(v, values) == v.t = "string" /\ v.s \in values

\* A faulty schema: the default of limit is that of getFunctionRuns.
EventRunsSchemaParseDefault20(args) ==
  LET eventId == Get(args, "eventId")
      limit == Get(args, "limit")
  IN IF args.t = "object" /\ ZodString(eventId)
        /\ (limit.t = "undefined" \/ ZodNumber(limit))
     THEN Valid([eventId |-> eventId.s,
                 limit |-> IF limit.t = "undefined" THEN DefaultFunctionRunsLimit
                           ELSE limit.n])
     ELSE Invalid

\* eventRunsSchema: eventId a string, limit a number, optional, 10 by default
EventRunsSchemaParse(args) ==
  LET eventId == Get(args, "eventId")
      limit == Get(args, "limit")
  IN IF args.t = "object" /\ ZodString(eventId)
        /\ (limit.t = "undefined" \/ ZodNumber(limit))
     THEN Valid([eventId |-> eventId.s,
                 limit |-> IF limit.t = "undefined" THEN DefaultToolLimit ELSE limit.n])
     ELSE Invalid

\* sendEventSchema: eventName a string, data a record
SendEventSchemaParse(args) ==
  LET eventName == Get(args, "eventName")
      data == Get(args, "data")
  IN IF args.t = "object" /\ ZodString(eventName) /\ ZodRecord(data)
     THEN Valid([eventName |-> eventName.s, data |-> data])
     ELSE Invalid

\* runHistorySchema: runId a string
RunHistorySchemaParse(args) ==
  LET runId == Get(args, "runId")
  IN IF args.t = "object" /\ ZodString(runId)
     THEN Valid([runId |-> runId.s])
     ELSE Invalid

\* runActionSchema: runId a string, action one of cancel and replay
RunActionSchemaParse(args) ==
  LET runId == Get(args, "runId")
      action == Get(args, "action")
  IN IF args.t = "object" /\ ZodString(runId) /\ ZodEnum(action, {"cancel", "replay"})
     THEN Valid([runId |-> runId.s, action |-> action.s])
     ELSE Invalid

\* The inputSchema each tool is registered with, applied to the arguments
SchemaParse(tool, args) ==
  CASE tool = "send_event" -> SendEventSchemaParse(args)
    [] tool = "get_event_runs" -> EventRunsSchemaParse(args)
    [] tool = "get_run_details" -> RunHistorySchemaParse(args)
    [] tool = "manage_run" -> RunActionSchemaParse(args)

ToolNames == {"send_event", "get_event_runs", "get_run_details", "manage_run"}

\* Arguments a client of the server may send with a tool call
RawArguments ==
  {Undefined,
   JsObj(<<>>),
   JsObj(<<Member("eventId", JsStr("event-1"))>>),
   JsObj(<<Member("eventId", JsStr("event-1")), Member("limit", JsNum(1))>>),
   JsObj(<<Member("eventId", JsStr("event-1")), Member("limit", JsStr("5"))>>),
   JsObj(<<Member("eventId", JsStr("event-1")), Member("limit", JsNull)>>),
   JsObj(<<Member("limit", JsNum(1))>>),
   JsObj(<<Member("eventId", JsNum(7))>>),
   JsObj(<<Member("eventName", JsStr("test.event")),
           Member("data", JsObj(<<Member("message", JsStr("hello"))>>))>>),
   JsObj(<<Member("eventName", JsStr("test.event"))>>),
   JsObj(<<Member("eventName", JsStr("test.event")), Member("data", JsStr("hello"))>>),
   JsObj(<<Member("data", JsObj(<<>>))>>),
   JsObj(<<Member("runId", JsStr("run-1"))>>),
   JsObj(<<Member("runId", JsStr("run-1")), Member("action", JsStr("cancel"))>>),
   JsObj(<<Member("runId", JsStr("run-1")), Member("action", JsStr("replay"))>>),
   JsObj(<<Member("runId", JsStr("run-1")), Member("action", JsStr("retry"))>>),
   JsObj(<<Member("runId", JsNum(1)), Member("action", JsStr("cancel"))>>),
   JsObj(<<Member("action", JsStr("cancel"))>>)}

InvalidParams == [kind |-> "invalid params"]

\* A tool call arrives at the server.
Arrive(c, tool, args) ==
  /\ pc[c] = "idle"
  /\ request[c] = NoRequest
  /\ request' = [request EXCEPT ![c] = [tool |-> tool, args |-> args]]
  /\ UNCHANGED <<config, lastResponse, lastError, clock, pc, call, idx, localErr, sent,
                 recv, result, reply, log>>

\* The arguments do not match the inputSchema: the handler is not called.
Reject(c, tool) ==
  /\ pc' = [pc EXCEPT ![c] = "done"]
  /\ call' = [call EXCEPT ![c] = [via |-> tool, op |-> "none"]]
  /\ reply' = [reply EXCEPT ![c] = InvalidParams]
  /\ UNCHANGED <<config, lastResponse, lastError, clock, idx, localErr, sent, recv,
                 result, log, request>>

\* The server parses the arguments with the tool's inputSchema and calls the
\* handler with the parsed value.
Dispatch(c) ==
  /\ pc[c] = "idle"
  /\ request[c] # NoRequest
  /\ LET tool == request[c].tool
         parsed == SchemaParse(tool, request[c].args)
     IN IF parsed.kind = "invalid" THEN Reject(c, tool)
        ELSE CASE tool = "send_event" ->
                    SendEvent(c, tool, parsed.val.eventName, parsed.val.data)
               [] tool = "get_event_runs" ->
                    GetEventRuns(c, tool, parsed.val.eventId, parsed.val.limit)
               [] tool = "get_run_details" -> GetRunDetails(c, tool, parsed.val.runId)
               [] tool = "manage_run" /\ parsed.val.action = "cancel" ->
                    CancelRun(c, tool, parsed.val.runId)
               [] tool = "manage_run" /\ parsed.val.action = "replay" ->
                    ReplayRun(c, tool, parsed.val.runId)

ToolNetwork(c) ==
  \E resp \in Responses :
    \/ GetEventRunsSettle(c, resp)
    \/ GetRunDetailsSettle(c, resp)
    \/ CancelRunSettle(c, resp)
    \/ ReplayRunSettle(c, resp)
    \/ SendEventSettle(c, resp)

ToolNext ==
  \/ \E tool \in ToolNames, args \in RawArguments : Arrive("p1", tool, args)
  \/ Dispatch("p1")
  \/ ToolNetwork("p1")

ToolSpec == Init /\ [][ToolNext]_vars

\* ------------------------------------------------------------------------
\* index.ts: the rendering of runs, for the runs a service may return
\* ------------------------------------------------------------------------
\* A WorkflowRun as the service returns it; ended_at is left out, null, or an
\* ISO timestamp.
RenderRun(runId, status, startedAt, endedAt) ==
  JsObj(<<Member("run_id", JsStr(runId)), Member("status", JsStr(status)),
          Member("run_started_at", JsStr(startedAt))>>
        \o (IF endedAt = Undefined THEN <<>> ELSE <<Member("ended_at", endedAt)>>))

RenderRuns ==
  {RenderRun("run-a", "Running", "2024-01-01T00:00:00Z", Undefined),
   RenderRun("run-b", "Paused", "2024-01-01T00:00:00.400Z", JsNull),
   RenderRun("run-c", "Completed", "2024-01-01T00:00:00Z", JsStr("2024-01-01T00:01:30Z")),
   RenderRun("run-d", "Failed", "2024-01-01T00:00:00Z", JsStr("2024-01-01T00:00:01.600Z")),
   RenderRun("run-e", "Completed", "2024-01-01T00:00:00.400Z",
             JsStr("2024-01-01T00:01:30Z")),
   RenderRun("run-f", "Cancelled", "2024-01-01T00:00:00Z",
             JsStr("2023-12-31T23:59:58.800Z"))}

MaxRuns == 3

\* The lists getEventRuns may resolve to
RenderRunLists == UNION {[1..n -> RenderRuns] : n \in 0..MaxRuns}

\* The numbers eventRunsSchema accepts for limit
RenderLimits ==
  {n \in {-1, 0, 1, 2, DefaultToolLimit} :
     EventRunsSchemaParse(JsObj(<<Member("eventId", JsStr("event-1")),
                                  Member("limit", JsNum(n))>>)).kind = "valid"}

\* The handler, from the value its awaited client call resolved to
Rendered(c, cl, outcome) ==
  /\ pc[c] = "idle"
  /\ pc' = [pc EXCEPT ![c] = "done"]
  /\ call' = [call EXCEPT ![c] = cl]
  /\ result' = [result EXCEPT ![c] = outcome]
  /\ reply' = [reply EXCEPT ![c] = ToolReply(cl, outcome)]
  /\ UNCHANGED <<config, lastResponse, lastError, clock, idx, localErr, sent, recv, log,
                 request>>

\* get_event_runs, getEventRuns having resolved to runs
EventRunsRendered(c, runs, limit) ==
  Rendered(c, [via |-> "get_event_runs", op |-> "getEventRuns", eventId |-> "event-1",
               limit |-> limit],
           Return(JsArr(runs)))

\* get_run_details, getRunDetails having resolved to run
RunDetailsRendered(c, run) ==
  Rendered(c, [via |-> "get_run_details", op |-> "getRunDetails", runId |-> "run-1"],
           Return(run))

RenderInit == Init /\ config.env = Undefined /\ config.baseUrl = CloudUrl

RenderNext ==
  \/ \E runs \in RenderRunLists, limit \in RenderLimits : EventRunsRendered("p1", runs, limit)
  \/ \E run \in RenderRuns : RunDetailsRendered("p1", run)

RenderSpec == RenderInit /\ [][RenderNext]_vars

\* ------------------------------------------------------------------------
\* InngestClient.getConfig, and what its caller may do with the result
\* ------------------------------------------------------------------------
\* A faulty getConfig: the client's own object is returned.
GetConfigResultAliased(cfg) == [kind |-> "return", val |-> cfg, ref |-> "this.config"]

\* return { ...this.config }: a new object with the properties of the
\* configuration; ref tells which object the caller holds.
GetConfigResult(cfg) ==
  [kind |-> "return",
   val |-> [signingKey |-> cfg.signingKey, eventKey |-> cfg.eventKey,
            baseUrl |-> cfg.baseUrl, env |-> cfg.env],
   ref |-> "copy"]

GetConfig(c) == Immediately(c, [via |-> "client", op |-> "getConfig"], GetConfigResult(config))

\* What a caller may assign to a property of the object it got
ConfigWrites ==
  [signingKey |-> {"other-key"},
   eventKey |-> {JsStr("event-key")},
   baseUrl |-> {LocalhostUrl, <<"https://", "elsewhere.example.com">>},
   env |-> {JsStr("staging")}]

\* The caller assigns to a property of the object getConfig returned; the
\* assignment reaches the client when that object is the client's own.
ModifyReturned(c, field, value) ==
  /\ pc[c] = "done"
  /\ call[c].op = "getConfig"
  /\ result[c].val[field] # value
  /\ result' = [result EXCEPT ![c].val[field] = value]
  /\ config' = IF result[c].ref = "this.config" THEN [config EXCEPT ![field] = value]
                ELSE config
  /\ UNCHANGED <<lastResponse, lastError, clock, pc, call, idx, localErr, sent, recv,
                 reply, log, request>>

ConfigNetwork(c) ==
  \E resp \in OverlapResponses :
    \/ GetEventRunsSettle(c, resp)
    \/ CancelRunSettle(c, resp)
    \/ SendEventSettle(c, resp)

ConfigNext ==
  \/ GetConfig("p1")
  \/ \E field \in DOMAIN ConfigWrites : \E value \in ConfigWrites[field] :
       ModifyReturned("p1", field, value)
  \/ \E e \in EventIds : GetEventRuns("p1", "client", e, DefaultToolLimit)
  \/ \E id \in RunIds : CancelRun("p1", "client", id)
  \/ SendEvent("p1", "client", "test.event", JsObj(<<>>))
  \/ ConfigNetwork("p1")
  \/ Again("p1")

ConfigSpec == Init /\ [][ConfigNext]_vars

\* ------------------------------------------------------------------------
\* Properties
\* ------------------------------------------------------------------------
CandidateOps == {"getRunDetails", "cancelRun", "replayRun"}
Tools == {"send_event", "get_event_runs", "get_run_details", "manage_run"}

\* The candidate list of an invocation of a candidate operation
EndpointsOf(cl) ==
  CASE cl.op = "getRunDetails" -> RunDetailsEndpoints(cl.runId)
    [] cl.op = "cancelRun" -> CancelEndpoints(cl.runId)
    [] cl.op = "replayRun" -> ReplayEndpoints(cl.runId)

IsSuffix(suffix, str) ==
  /\ Len(suffix) <= Len(str)
  /\ SubSeq(str, Len(str) - Len(suffix) + 1, Len(str)) = suffix

HasHeader(req, name) == name \in DOMAIN req.headers

\* The base URL names a local endpoint, as the claims word it
LocalBaseUrl == Includes(config.baseUrl, "localhost") \/ Includes(config.baseUrl, "127.0.0.1")

\* fetch settled with a failure: the transport failed or the status is no success
RequestFailed(resp) == resp.net = "rejected" \/ resp.status < 200 \/ resp.status > 299

\* C1: every outgoing request carries Authorization: Bearer <signingKey> if and
\* only if the signing key is non-empty, is not "local-dev-key", and the base
\* URL contains neither "localhost" nor "127.0.0.1"; otherwise it carries no
\* Authorization header.
C1_AuthorizationRule ==
  \A c \in Procs : \A i \in DOMAIN sent[c] :
    IF /\ config.signingKey # ""
       /\ config.signingKey # "local-dev-key"
       /\ ~Includes(config.baseUrl, "localhost")
       /\ ~Includes(config.baseUrl, "127.0.0.1")
    THEN /\ HasHeader(sent[c][i], "Authorization")
         /\ sent[c][i].headers["Authorization"] = <<"Bearer ", config.signingKey>>
    ELSE ~HasHeader(sent[c][i], "Authorization")

\* A request with the Authorization header has been issued, by a client whose
\* other URLs and keys would not have had it.
C1_Witness ==
  /\ sent["p1"] # <<>>
  /\ HasHeader(sent["p1"][1], "Authorization")
  /\ config.signingKey = "test-key"
  /\ config.baseUrl = CloudUrl

\* C2 as the specification words it: no Authorization header when the base URL
\* is local and the key is the local sentinel, and Authorization: Bearer
\* <signingKey> on every request of any other combination.
C2_AsStated ==
  \A c \in Procs : \A i \in DOMAIN sent[c] :
    IF LocalBaseUrl /\ config.signingKey = "local-dev-key"
    THEN ~HasHeader(sent[c][i], "Authorization")
    ELSE /\ HasHeader(sent[c][i], "Authorization")
         /\ sent[c][i].headers["Authorization"] = <<"Bearer ", config.signingKey>>

\* C2 (amended): no outgoing request carries an Authorization header when the
\* base URL is local, or the signing key is the local sentinel, or the signing
\* key is empty; for any other combination every outgoing request carries
\* Authorization: Bearer <signingKey>.
C2_LocalOrSentinelUnauthenticated ==
  \A c \in Procs : \A i \in DOMAIN sent[c] :
    /\ (LocalBaseUrl \/ config.signingKey \in {"local-dev-key", ""})
          => ~HasHeader(sent[c][i], "Authorization")
    /\ ~(LocalBaseUrl \/ config.signingKey \in {"local-dev-key", ""})
          => /\ HasHeader(sent[c][i], "Authorization")
             /\ sent[c][i].headers["Authorization"] = <<"Bearer ", config.signingKey>>

\* A request has been issued to a local base URL with the sentinel key.
C2_Witness ==
  /\ sent["p1"] # <<>>
  /\ LocalBaseUrl
  /\ config.signingKey = "local-dev-key"
  /\ ~HasHeader(sent["p1"][1], "Authorization")

\* C3 as stated: in one invocation of getRunDetails, cancelRun or replayRun
\* against a non-local base URL the candidate paths are requested in list
\* order, each at most once, and the sequence stops at the first path that
\* returns success: no request follows a success response, and the result
\* comes from that response.
C3_StopsAtFirstSuccess ==
  \A c \in Procs :
    (call[c].op \in CandidateOps /\ ~LocalBaseUrl) =>
      /\ Len(sent[c]) <= Len(EndpointsOf(call[c]))
      /\ \A i \in DOMAIN sent[c] :
           sent[c][i].url = config.baseUrl \o EndpointsOf(call[c])[i]
      /\ \A k \in DOMAIN recv[c] :
           ~RequestFailed(recv[c][k]) =>
             /\ Len(sent[c]) = k
             /\ pc[c] = "done"
             /\ result[c].kind = "return"

\* C4: on a local base URL getRunDetails, cancelRun and replayRun issue no
\* network call and fail at once with an error whose message contains
\* "not available in development mode".
C4_LocalModeRejects ==
  \A c \in Procs :
    (call[c].op \in CandidateOps /\ LocalBaseUrl) =>
      /\ sent[c] = <<>>
      /\ recv[c] = <<>>
      /\ pc[c] = "done"
      /\ result[c].kind = "throw"
      /\ Includes(result[c].msg, "not available in development mode")

\* Each of the three operations has been rejected on a loopback base URL.
C4_Witness ==
  /\ config.baseUrl = LoopbackUrl
  /\ call["p1"].op = "replayRun"
  /\ pc["p1"] = "done"
  /\ result["p1"].kind = "throw"

\* The request of one candidate failed: apiRequest threw.
CandidateFailed(resp) == RequestFailed(resp) \/ resp.body = ""

\* The message of the error apiRequest throws for a failed request
FailureMessage(resp) ==
  IF resp.net = "rejected" THEN <<"fetch failed">>
  ELSE IF RequestFailed(resp)
       THEN <<"Inngest API error: ", ToString(resp.status), " ", resp.statusText, " - ",
              resp.body>>
  ELSE <<"Unexpected end of JSON input">>

\* C5: if every candidate path of getRunDetails, cancelRun or replayRun fails,
\* the operation fails with one aggregate error ("Failed to ... Last error:")
\* whose message ends with the failure of the last candidate tried; it never
\* returns a value.
C5_ExhaustedNamesLastFailure ==
  \A c \in Procs :
    ( /\ call[c].op \in CandidateOps
      /\ Len(recv[c]) = Len(EndpointsOf(call[c]))
      /\ \A k \in DOMAIN recv[c] : CandidateFailed(recv[c][k]) ) =>
      /\ pc[c] = "done"
      /\ result[c].kind = "throw"
      /\ Includes(result[c].msg, ". Last error: ")
      /\ IsSuffix(FailureMessage(recv[c][Len(recv[c])]), result[c].msg)
      /\ Len(sent[c]) = Len(recv[c])

\* replayRun has exhausted its six candidates, the last failing differently
\* from the first.
C5_Witness ==
  /\ call["p1"].op = "replayRun"
  /\ Len(recv["p1"]) = 6
  /\ \A k \in DOMAIN recv["p1"] : CandidateFailed(recv["p1"][k])
  /\ recv["p1"][1] = NetworkFailure
  /\ recv["p1"][6] # NetworkFailure
  /\ pc["p1"] = "done"

\* C6: every tool of the facade catches an error raised by the client
\* operation it calls and returns a normal text response whose body states the
\* error message; no failure of the client leaves a handler in any other way.
C6_ToolsCatchClientErrors ==
  \A c \in Procs :
    (call[c].via \in Tools /\ pc[c] = "done") =>
      /\ reply[c].kind = "content"
      /\ result[c].kind = "throw" =>
           /\ Len(reply[c].text) = Len(result[c].msg) + 1
           /\ IsSuffix(Lits(result[c].msg), reply[c].text)

\* manage_run has answered a replay whose six candidates all failed.
C6_Witness ==
  /\ call["p1"].via = "manage_run"
  /\ call["p1"].op = "replayRun"
  /\ Len(recv["p1"]) = 6
  /\ result["p1"].kind = "throw"
  /\ reply["p1"].kind = "content"

\* C7: on a local base URL getFunctionRuns never raises, and resolves to an
\* empty sequence whenever its request fails; on any other base URL the
\* failure of the request is raised to the caller.
C7_FunctionRunsLocalSwallows ==
  \A c \in Procs :
    (call[c].op = "getFunctionRuns" /\ pc[c] = "done") =>
      /\ LocalBaseUrl => result[c].kind = "return"
      /\ (LocalBaseUrl /\ RequestFailed(recv[c][1])) => result[c] = Return(JsArr(<<>>))
      /\ (~LocalBaseUrl /\ RequestFailed(recv[c][1]))
           => result[c] = Throw(FailureMessage(recv[c][1]))

\* getFunctionRuns has met a non-success status on a local base URL.
C7_Witness ==
  /\ call["p1"].op = "getFunctionRuns"
  /\ pc["p1"] = "done"
  /\ LocalBaseUrl
  /\ recv["p1"][1].net = "response"
  /\ recv["p1"][1].status = 404

\* The filter fields of bulkCancelRuns and the keys they are sent under
FilterFields == {"functionId", "startedAfter", "startedBefore", "condition"}
FilterKey(field) ==
  CASE field = "functionId" -> "function_id"
    [] field = "startedAfter" -> "started_after"
    [] field = "startedBefore" -> "started_before"
    [] field = "condition" -> "if"

\* The members of the JSON body of a request, as the service reads them
BodyMembers(req) == JsonRead(req.body).m
BodyKeys(req) == {BodyMembers(req)[i].k : i \in DOMAIN BodyMembers(req)}

\* C8 as stated: the body of bulkCancelRuns holds exactly the mapped keys of
\* the fields that were supplied.
C8_AsStated ==
  \A c \in Procs :
    (call[c].op = "bulkCancelRuns" /\ sent[c] # <<>>) =>
      BodyKeys(sent[c][1])
        = {FilterKey(f) : f \in {g \in FilterFields : call[c].params[g] # Undefined}}

\* C8 (amended): the body of bulkCancelRuns holds exactly the mapped keys of
\* the fields supplied with a non-empty value, each once and with the value
\* supplied; a field omitted or supplied as the empty string is absent from
\* the body, not sent as null.
C8_BodyHoldsNonEmptyFields ==
  \A c \in Procs :
    (call[c].op = "bulkCancelRuns" /\ sent[c] # <<>>) =>
      LET supplied == {g \in FilterFields :
                         call[c].params[g] # Undefined /\ call[c].params[g] # JsStr("")}
      IN /\ BodyKeys(sent[c][1]) = {FilterKey(f) : f \in supplied}
         /\ Len(BodyMembers(sent[c][1])) = Cardinality(supplied)
         /\ \A f \in supplied :
              Get(JsonRead(sent[c][1].body), FilterKey(f)) = call[c].params[f]

\* bulkCancelRuns has sent a body for a function ID and a condition alone.
C8_Witness ==
  /\ call["p1"].op = "bulkCancelRuns"
  /\ sent["p1"] # <<>>
  /\ call["p1"].params.functionId = JsStr("func-1")
  /\ call["p1"].params.startedAfter = Undefined
  /\ call["p1"].params.startedBefore = Undefined
  /\ call["p1"].params.condition = JsStr("status == 'Running'")

\* C9: bulkCancelRuns always issues its POST, also on a local base URL; when
\* the request fails on a local base URL the error raised is the fixed "not
\* available in development mode" error, and on any other base URL it is the
\* error of the request, with its status code, unchanged.
C9_BulkCancelFailure ==
  \A c \in Procs :
    call[c].op = "bulkCancelRuns" =>
      /\ Len(sent[c]) = 1
      /\ sent[c][1].method = "POST"
      /\ sent[c][1].url = config.baseUrl \o <<"/v1/cancellations">>
      /\ (pc[c] = "done" /\ RequestFailed(recv[c][1])) =>
           IF LocalBaseUrl
           THEN /\ result[c].kind = "throw"
                /\ Includes(result[c].msg, "not available in development mode")
                /\ ~IsSuffix(FailureMessage(recv[c][1]), result[c].msg)
           ELSE /\ result[c] = Throw(FailureMessage(recv[c][1]))
                /\ recv[c][1].net = "response"
                     => Includes(result[c].msg, ToString(recv[c][1].status))

\* bulkCancelRuns has met a non-success status on a local base URL.
C9_Witness ==
  /\ call["p1"].op = "bulkCancelRuns"
  /\ pc["p1"] = "done"
  /\ LocalBaseUrl
  /\ recv["p1"][1].net = "response"
  /\ recv["p1"][1].status = 404
  /\ result["p1"].kind = "throw"

\* C10: sendEvent(N, P) issues exactly one POST to /v1/events whose body has a
\* name field equal to N, a data field equal to P and a timestamp field, and on
\* success returns the identifier contained in the response.
C10_SendEventBody ==
  \A c \in Procs :
    call[c].op = "sendEvent" =>
      /\ Len(sent[c]) = 1
      /\ sent[c][1].method = "POST"
      /\ sent[c][1].url = config.baseUrl \o <<"/v1/events">>
      /\ Get(JsonRead(sent[c][1].body), "name") = JsStr(call[c].eventName)
      /\ Get(JsonRead(sent[c][1].body), "data") = call[c].data
      /\ "timestamp" \in BodyKeys(sent[c][1])
      /\ (pc[c] = "done" /\ ~CandidateFailed(recv[c][1])) =>
           /\ result[c].kind = "return"
           /\ Get(result[c].val, "id") = Get(JsonParse(recv[c][1].body), "id")

\* sendEvent has sent a nested payload and returned the identifier evt-1.
C10_Witness ==
  /\ call["p1"].op = "sendEvent"
  /\ pc["p1"] = "done"
  /\ call["p1"].data \in Payloads
  /\ Len(call["p1"].data.m) = 2
  /\ result["p1"].kind = "return"
  /\ Get(result["p1"].val, "id") = JsStr("evt-1")

\* C11: getRunSteps returns an empty sequence for every run ID and every
\* configuration, issues no network call, and changes neither the
\* last-response nor the last-error diagnostic value.
C11_RunStepsEmptyAndSilent ==
  [][\A c \in Procs :
       (pc[c] = "idle" /\ call'[c].op = "getRunSteps") =>
         /\ pc'[c] = "done"
         /\ result'[c] = Return(JsArr(<<>>))
         /\ sent'[c] = <<>>
         /\ sent' = sent
         /\ lastResponse' = lastResponse
         /\ lastError' = lastError]_vars

\* getRunSteps has returned to a client of the cloud service that holds a key.
C11_Witness ==
  /\ call["p1"].op = "getRunSteps"
  /\ call["p1"].runId \in RunIds
  /\ pc["p1"] = "done"
  /\ result["p1"] = Return(JsArr(<<>>))
  /\ config.baseUrl = CloudUrl
  /\ config.signingKey = "test-key"

\* C12: whenever the HTTP response to a client request has a non-success
\* status, the generic request operation fails with an error that carries the
\* numeric status, the status text and the raw response body, and returns no
\* value.
C12_NonSuccessStatusThrows ==
  \A c \in Procs :
    ( /\ call[c].op = "apiRequest"
      /\ recv[c] # <<>>
      /\ recv[c][1].net = "response"
      /\ (recv[c][1].status < 200 \/ recv[c][1].status > 299) ) =>
      /\ pc[c] = "done"
      /\ result[c].kind = "throw"
      /\ Includes(result[c].msg, ToString(recv[c][1].status))
      /\ Includes(result[c].msg, recv[c][1].statusText)
      /\ Includes(result[c].msg, recv[c][1].body)

\* apiRequest has met the status 404 with a body.
C12_Witness ==
  /\ call["p1"].op = "apiRequest"
  /\ recv["p1"] # <<>>
  /\ recv["p1"][1].net = "response"
  /\ recv["p1"][1].status = 404
  /\ recv["p1"][1].body = NotFoundBody
  /\ result["p1"].kind = "throw"

\* C13: after every request that completes with a success status and a
\* parsable JSON body, getLastResponse returns the snapshot of exactly that
\* request (its full URL, its status and its parsed body) and the operation
\* returns that same parsed body.
C13_SnapshotOfSucceededRequest ==
  \A c \in Procs :
    ( /\ call[c].op = "apiRequest"
      /\ recv[c] # <<>>
      /\ ~RequestFailed(recv[c][1])
      /\ recv[c][1].body # "" ) =>
      /\ GetLastResponse(lastResponse) # Undefined
      /\ GetLastResponse(lastResponse).url = config.baseUrl \o call[c].endpoint
      /\ GetLastResponse(lastResponse).url = sent[c][1].url
      /\ GetLastResponse(lastResponse).status = recv[c][1].status
      /\ GetLastResponse(lastResponse).data = JsonParse(recv[c][1].body)
      /\ pc[c] = "done"
      /\ result[c] = Return(JsonParse(recv[c][1].body))

\* apiRequest has returned the parsed identifier of an event, at a later time.
C13_Witness ==
  /\ call["p1"].op = "apiRequest"
  /\ recv["p1"] = <<HttpResponse(200, "OK", EventIdBody)>>
  /\ result["p1"].kind = "return"
  /\ lastResponse # Undefined
  /\ lastResponse.timestamp = 1
  /\ Get(lastResponse.data, "id") = JsStr("evt-1")

RequestOps ==
  {"getEventRuns", "getFunctionRuns", "getRunDetails", "cancelRun", "replayRun",
   "bulkCancelRuns", "sendEvent"}

\* C14 as stated: after any client operation (getEventRuns, getFunctionRuns,
\* getRunDetails, cancelRun, replayRun, bulkCancelRuns, sendEvent) ends with a
\* failed request, getLastError returns an entry whose message is that of the
\* most recent failure.
C14_LastErrorIsMostRecentFailure ==
  \A c \in Procs :
    ( /\ call[c].op \in RequestOps
      /\ pc[c] = "done"
      /\ recv[c] # <<>>
      /\ RequestFailed(recv[c][Len(recv[c])]) ) =>
      /\ GetLastError(lastError) # Undefined
      /\ GetLastError(lastError).message = FailureMessage(recv[c][Len(recv[c])])

\* C16 as stated: during one tool invocation at most one HTTP request issued by
\* that invocation is outstanding at any moment; a candidate path is requested
\* only after the request to the previous candidate has completed with a
\* failure; and no request is outstanding or issued once the invocation has
\* returned.
C16_OneRequestAtATime ==
  \A c \in Procs :
    call[c].via \in Tools =>
      /\ Len(sent[c]) - Len(recv[c]) \in {0, 1}
      /\ \A i \in DOMAIN sent[c] :
           i > 1 => /\ i - 1 \in DOMAIN recv[c]
                    /\ CandidateFailed(recv[c][i - 1])
      /\ pc[c] = "done" => Len(sent[c]) = Len(recv[c])

\* The invocation c has completed successfully: it returned, and its last
\* request was answered with a success status and a parsable body.
CompletedSuccessfully(c) ==
  /\ pc[c] = "done"
  /\ result[c].kind = "return"
  /\ recv[c] # <<>>
  /\ ~CandidateFailed(recv[c][Len(recv[c])])

\* lresp is the complete snapshot of the i-th request of c
SnapshotIsOf(lresp, c, i) ==
  /\ lresp # Undefined
  /\ ~CandidateFailed(recv[c][i])
  /\ lresp.url = sent[c][i].url
  /\ lresp.status = recv[c][i].status
  /\ lresp.data = JsonParse(recv[c][i].body)

\* The invocation whose response was processed last
ProcessedLast == log[Len(log)][1]

\* Two invocations were in progress at once: the second began before any
\* response of the first was processed.
Overlapped ==
  /\ Len(log) >= 2
  /\ log[1][2] = "begin"
  /\ log[2][2] = "begin"
  /\ log[1][1] # log[2][1]

\* C17: when two client calls overlap, the diagnostic snapshot has
\* last-write-wins semantics: after both have completed successfully,
\* getLastResponse returns the snapshot of the request whose response was
\* processed last, whichever call was started first, and it is always a
\* complete snapshot of one single request (never a mix of two).
C17_LastWriteWins ==
  /\ (Overlapped /\ \A c \in Procs : CompletedSuccessfully(c)) =>
        SnapshotIsOf(GetLastResponse(lastResponse), ProcessedLast,
                     Len(recv[ProcessedLast]))
  /\ GetLastResponse(lastResponse) # Undefined =>
        \E c \in Procs : \E i \in DOMAIN recv[c] :
          SnapshotIsOf(GetLastResponse(lastResponse), c, i)

\* Two overlapping calls have both completed successfully, the one that was
\* started first being processed last, with different URLs and bodies.
C17_Witness ==
  /\ Overlapped
  /\ \A c \in Procs : CompletedSuccessfully(c)
  /\ log[1][1] = "p1"
  /\ ProcessedLast = "p1"
  /\ call["p1"].op = "getRunDetails"
  /\ Len(recv["p1"]) = 2
  /\ call["p2"].op = "sendEvent"
  /\ recv["p2"] = <<HttpResponse(200, "OK", EventIdBody)>>
  /\ lastResponse.url = CloudUrl \o RunDetailsEndpoints("run-1")[2]

\* C18: no failure is swallowed outside the documented exceptions: for
\* getEventRuns and sendEvent on any base URL, local ones included, and for
\* getFunctionRuns and bulkCancelRuns on a non-local base URL, whenever the
\* request fails the operation raises an error to its caller and never
\* resolves to a normal value.
C18_FailuresAreRaised ==
  \A c \in Procs :
    ( /\ pc[c] = "done"
      /\ recv[c] # <<>>
      /\ RequestFailed(recv[c][1])
      /\ \/ call[c].op \in {"getEventRuns", "sendEvent"}
         \/ call[c].op \in {"getFunctionRuns", "bulkCancelRuns"} /\ ~LocalBaseUrl ) =>
      /\ result[c].kind = "throw"
      /\ result[c].msg # <<>>

\* getEventRuns has met the status 404 on a local base URL.
C18_Witness ==
  /\ call["p1"].op = "getEventRuns"
  /\ pc["p1"] = "done"
  /\ LocalBaseUrl
  /\ recv["p1"] = <<HttpResponse(404, "Not Found", NotFoundBody)>>
  /\ result["p1"].kind = "throw"

\* The two response formats getRunDetails accepts: a {data: Run} envelope whose
\* run is present, and a bare object that contains run_id.
IsRunEnvelope(v) ==
  /\ v.t = "object"
  /\ "data" \in {v.m[i].k : i \in DOMAIN v.m}
  /\ Get(v, "data").t \notin {"undefined", "null"}
IsBareRun(v) ==
  /\ v.t = "object"
  /\ "data" \notin {v.m[i].k : i \in DOMAIN v.m}
  /\ "run_id" \in {v.m[i].k : i \in DOMAIN v.m}

\* The candidates of c that answered successfully, with a JSON body
AnsweredSuccessfully(c) == {k \in DOMAIN recv[c] : ~CandidateFailed(recv[c][k])}

\* C19: getRunDetails returns, from the first candidate that answers
\* successfully, the content of the data field when the response is a
\* {data: Run} envelope with a present run, and the response object itself
\* when it is a bare object containing run_id; a successful response of
\* neither shape is never returned as the run.
C19_RunDetailsFormats ==
  \A c \in Procs :
    call[c].op = "getRunDetails" =>
      /\ \A k \in AnsweredSuccessfully(c) :
           LET v == JsonParse(recv[c][k].body)
           IN (~IsRunEnvelope(v) /\ ~IsBareRun(v)) => result[c] # Return(v)
      /\ AnsweredSuccessfully(c) # {} =>
           LET first == CHOOSE k \in AnsweredSuccessfully(c) :
                          \A j \in AnsweredSuccessfully(c) : k <= j
               v == JsonParse(recv[c][first].body)
           IN /\ IsRunEnvelope(v) => /\ pc[c] = "done"
                                      /\ result[c] = Return(Get(v, "data"))
                                      /\ Len(recv[c]) = first
              /\ IsBareRun(v) => /\ pc[c] = "done"
                                  /\ result[c] = Return(v)
                                  /\ Len(recv[c]) = first

\* getRunDetails has returned the bare run of its second candidate.
C19_Witness ==
  /\ call["p1"].op = "getRunDetails"
  /\ Len(recv["p1"]) = 2
  /\ RequestFailed(recv["p1"][1])
  /\ recv["p1"][2] = HttpResponse(200, "OK", BareRunBody)
  /\ result["p1"] = Return(RunB)

\* The declared input shape of each tool: the required fields and their
\* types, and the optional ones.
FieldIs(args, field, type) == Get(args, field).t = type
FieldOmitted(args, field) == field \notin {args.m[i].k : i \in DOMAIN args.m}
MatchesDeclaredShape(tool, args) ==
  /\ args.t = "object"
  /\ CASE tool = "send_event" ->
             FieldIs(args, "eventName", "string") /\ FieldIs(args, "data", "object")
        [] tool = "get_event_runs" ->
             /\ FieldIs(args, "eventId", "string")
             /\ FieldOmitted(args, "limit") \/ FieldIs(args, "limit", "number")
        [] tool = "get_run_details" -> FieldIs(args, "runId", "string")
        [] tool = "manage_run" ->
             /\ FieldIs(args, "runId", "string")
             /\ Get(args, "action") \in {JsStr("cancel"), JsStr("replay")}

\* C20: a tool call whose arguments do not match the declared input shape
\* (missing required field, wrong type, action outside {cancel, replay}) is
\* rejected before any client operation or network call is made, and a call
\* with all required fields present and limit omitted is accepted with limit
\* defaulted to 10.
C20_InputValidatedFirst ==
  \A c \in Procs :
    (request[c] # NoRequest /\ pc[c] # "idle") =>
      LET tool == request[c].tool
          args == request[c].args
      IN /\ ~MatchesDeclaredShape(tool, args) =>
              /\ pc[c] = "done"
              /\ reply[c].kind = "invalid params"
              /\ call[c].op = "none"
              /\ result[c].kind = "pending"
              /\ sent[c] = <<>>
              /\ recv[c] = <<>>
              /\ log = <<>>
         /\ MatchesDeclaredShape(tool, args) =>
              /\ call[c].via = tool
              /\ call[c].op # "none"
              /\ reply[c].kind # "invalid params"
         /\ (tool = "get_event_runs" /\ MatchesDeclaredShape(tool, args)
               /\ FieldOmitted(args, "limit")) =>
              /\ call[c].op = "getEventRuns"
              /\ call[c].eventId = Get(args, "eventId").s
              /\ call[c].limit = 10

\* manage_run has been called with an action that is neither cancel nor replay
\* and the call has been rejected.
C20_Witness ==
  /\ request["p1"].tool = "manage_run"
  /\ Get(request["p1"].args, "runId") = JsStr("run-1")
  /\ Get(request["p1"].args, "action") = JsStr("retry")
  /\ pc["p1"] = "done"
  /\ reply["p1"].kind = "invalid params"
  /\ sent["p1"] = <<>>

\* The parts of a rendered text that directly follow the part label, in order
RECURSIVE PartsAfter(_, _)
PartsAfter(text, label) ==
  IF Len(text) < 2 THEN <<>>
  ELSE (IF Head(text) = label THEN <<text[2]>> ELSE <<>>) \o PartsAfter(Tail(text), label)

\* The runs a finished get_event_runs or get_run_details has rendered
RECURSIVE WithIds(_, _)
WithIds(runs, ids) ==
  IF ids = <<>> \/ runs = <<>> THEN <<>>
  ELSE IF Lit(Get(Head(runs), "run_id").s) = Head(ids)
       THEN <<Head(runs)>> \o WithIds(Tail(runs), Tail(ids))
       ELSE WithIds(Tail(runs), ids)
RenderedRuns(c) ==
  IF call[c].via = "get_run_details" THEN <<result[c].val>>
  ELSE WithIds(result[c].val.a, PartsAfter(reply[c].text, Lit("**Run ID:** ")))

\* The run has an end time
HasEndTime(run) ==
  /\ "ended_at" \in {run.m[i].k : i \in DOMAIN run.m}
  /\ Get(run, "ended_at").t = "string"

\* Milliseconds since 2024-01-01T00:00:00Z of the timestamps of the runs
Millis(stamp) ==
  CASE stamp = "2023-12-31T23:59:58.800Z" -> -1200
    [] stamp = "2024-01-01T00:00:00Z" -> 0
    [] stamp = "2024-01-01T00:00:00.400Z" -> 400
    [] stamp = "2024-01-01T00:00:01.600Z" -> 1600
    [] stamp = "2024-01-01T00:01:30Z" -> 90000

\* k is a whole number of seconds nearest to ms milliseconds
NearestSecond(k, ms) ==
  LET d == 1000 * k - ms IN (IF d < 0 THEN -d ELSE d) <= 500

RECURSIVE EndedRuns(_)
EndedRuns(runs) ==
  IF runs = <<>> THEN <<>>
  ELSE (IF HasEndTime(Head(runs)) THEN <<Head(runs)>> ELSE <<>>) \o EndedRuns(Tail(runs))

\* C21: when get_event_runs or get_run_details renders a run, a run without an
\* end time yields neither an "Ended" line nor a "Duration" line, and a run
\* with an end time yields a duration equal to end minus start in
\* milliseconds, divided by 1000 and rounded to the nearest whole second (a
\* 90-second difference renders as "90s").
C21_EndedAndDurationLines ==
  \A c \in Procs :
    ( /\ pc[c] = "done"
      /\ call[c].via \in {"get_event_runs", "get_run_details"}
      /\ result[c].kind = "return"
      /\ (call[c].via = "get_event_runs" => result[c].val.a # <<>>) ) =>
      LET ended == EndedRuns(RenderedRuns(c))
          endedLines == PartsAfter(reply[c].text, Lit("**Ended:** "))
          durations == PartsAfter(reply[c].text, Lit("**Duration:** "))
      IN /\ Len(endedLines) = Len(ended)
         /\ Len(durations) = Len(ended)
         /\ \A i \in DOMAIN ended :
              LET ms == Millis(Get(ended[i], "ended_at").s)
                          - Millis(Get(ended[i], "run_started_at").s)
              IN /\ \E k \in -2..90 : /\ durations[i] = Lit(ToString(k))
                                       /\ NearestSecond(k, ms)
                 /\ ms = 90000 => durations[i] = Lit("90")
         /\ \A i \in DOMAIN reply[c].text :
              reply[c].text[i] = Lit("**Duration:** ") => reply[c].text[i + 2] = Lit("s")

\* get_event_runs has rendered a run that is still running and, after it, a
\* run that took 1.6 seconds.
C21_Witness ==
  /\ call["p1"].via = "get_event_runs"
  /\ pc["p1"] = "done"
  /\ result["p1"].kind = "return"
  /\ Len(result["p1"].val.a) = 2
  /\ Get(result["p1"].val.a[1], "run_id") = JsStr("run-a")
  /\ Get(result["p1"].val.a[2], "run_id") = JsStr("run-d")
  /\ call["p1"].limit = 10
  /\ PartsAfter(reply["p1"].text, Lit("**Duration:** ")) = <<Lit("2")>>

SuccessStatusAnswers(c) == {k \in DOMAIN recv[c] : ~RequestFailed(recv[c][k])}

\* C23 as stated: in one invocation of cancelRun or replayRun at most one POST
\* is answered with a success status: once a candidate has answered with a
\* success status no further candidate is requested and the operation returns
\* the success flag, whatever the body of that answer (empty and non-JSON
\* bodies included).
C23_AtMostOneSuccessfulPost ==
  \A c \in Procs :
    call[c].op \in {"cancelRun", "replayRun"} =>
      /\ Cardinality(SuccessStatusAnswers(c)) <= 1
      /\ \A k \in SuccessStatusAnswers(c) :
           /\ Len(sent[c]) = k
           /\ pc[c] = "done"
           /\ result[c] = Return(JsObj(<<Member("success", [t |-> "boolean", b |-> TRUE])>>))

\* The prefixes and the verbs of the paths replayRun tries, in order
ReplayOrder ==
  << <<"/v0/runs/", "/replay">>, <<"/v1/runs/", "/replay">>, <<"/runs/", "/replay">>,
     <<"/v0/runs/", "/retry">>, <<"/v1/runs/", "/retry">>, <<"/runs/", "/retry">> >>

MostRequests(op) == IF op = "replayRun" THEN 6 ELSE 3

\* C24: replayRun requests the /v0, /v1 and unversioned "replay" paths and
\* then the /v0, /v1 and unversioned "retry" paths, in that order; no retry
\* path is requested unless all three replay paths have failed; and every
\* invocation terminates after at most six requests (getRunDetails and
\* cancelRun after at most three), provided each request completes.
C24_ReplayOrderAndTermination ==
  /\ [](\A c \in Procs :
          call[c].op \in CandidateOps =>
            /\ Len(sent[c]) <= MostRequests(call[c].op)
            /\ call[c].op = "replayRun" =>
                 \A i \in DOMAIN sent[c] :
                   /\ i <= Len(ReplayOrder)
                   /\ sent[c][i].url = config.baseUrl \o
                        <<ReplayOrder[i][1], call[c].runId, ReplayOrder[i][2]>>
                   /\ i >= 4 => \A k \in 1..3 : /\ k \in DOMAIN recv[c]
                                                 /\ CandidateFailed(recv[c][k]))
  /\ \A c \in Procs : (pc[c] = "await") ~> (pc[c] = "done")

\* replayRun has succeeded on its sixth path, the unversioned retry path.
C24_Witness ==
  /\ call["p1"].op = "replayRun"
  /\ pc["p1"] = "done"
  /\ Len(recv["p1"]) = 6
  /\ result["p1"].kind = "return"

\* The step completes a request of invocation c
Completes(c) == Len(recv'[c]) = Len(recv[c]) + 1

\* The response that the step's completed request of c got
Completed(c) == recv'[c][Len(recv'[c])]

\* C25: a request that fails (network failure, non-success status, or
\* unparsable body) leaves the last-response snapshot unchanged; the value of
\* getLastResponse changes only when a request completes successfully, and is
\* undefined until the first successful request.
C25_FailureKeepsLastResponse ==
  /\ GetLastResponse(lastResponse) = Undefined
  /\ [][/\ \A c \in Procs :
            (Completes(c) /\ CandidateFailed(Completed(c))) =>
              GetLastResponse(lastResponse') = GetLastResponse(lastResponse)
        /\ GetLastResponse(lastResponse') # GetLastResponse(lastResponse) =>
             \E c \in Procs : Completes(c) /\ ~CandidateFailed(Completed(c))]_vars

\* A request has failed while the snapshot of an earlier request to another
\* URL is held.
C25_Witness ==
  /\ pc["p1"] = "done"
  /\ Len(recv["p1"]) = 1
  /\ CandidateFailed(recv["p1"][1])
  /\ lastResponse # Undefined
  /\ lastResponse.url # sent["p1"][1].url

\* C26 as stated: the last-error value changes only when a candidate-path
\* request of getRunDetails, cancelRun or replayRun fails: no successful
\* request, no local-mode rejection and no other operation sets or clears it,
\* so once set it stays set.
C26_LastErrorOnlyOnCandidateFailure ==
  [][/\ GetLastError(lastError') # GetLastError(lastError) =>
          \E c \in Procs : /\ call[c].op \in CandidateOps
                           /\ Completes(c)
                           /\ CandidateFailed(Completed(c))
     /\ \A c \in Procs :
          (Completes(c) /\ ~CandidateFailed(Completed(c))) =>
            GetLastError(lastError') = GetLastError(lastError)
     /\ GetLastError(lastError) # Undefined => GetLastError(lastError') # Undefined]_vars

\* The candidate loop of c has tried every path and thrown the aggregate error
Exhausted(c) ==
  /\ call[c].op \in CandidateOps
  /\ pc[c] = "done"
  /\ result[c].kind = "throw"
  /\ Len(recv[c]) = Len(EndpointsOf(call[c]))

\* The requests of c that failed
OwnFailures(c) == {k \in DOMAIN recv[c] : CandidateFailed(recv[c][k])}

\* The message of the last failure of c's own requests
LastOwnFailure(c) ==
  LET k == CHOOSE k \in OwnFailures(c) : \A j \in OwnFailures(c) : j <= k
  IN FailureMessage(recv[c][k])

\* C27: when two candidate-path invocations overlap and both exhaust their
\* candidates, the aggregate error of each names the last failure of that same
\* invocation, never one recorded by the other, although the shared
\* last-error value may hold the other invocation's failure.
C27_AggregateErrorIsOwn ==
  (Overlapped /\ \A c \in Procs : Exhausted(c)) =>
    \A c \in Procs :
      /\ Includes(result[c].msg, ". Last error: ")
      /\ IF OwnFailures(c) # {}
         THEN IsSuffix(<<". Last error: ">> \o LastOwnFailure(c), result[c].msg)
         ELSE IsSuffix(<<". Last error: ", "Unknown error">>, result[c].msg)

\* Two overlapping loops have both exhausted their candidates: the last
\* failure of getRunDetails on p1 was a 404, on an earlier path than its
\* last, while the shared last error holds the network failure of cancelRun
\* on p2, recorded later.
C27_Witness ==
  /\ Overlapped
  /\ \A c \in Procs : Exhausted(c)
  /\ call["p1"].op = "getRunDetails"
  /\ call["p2"].op = "cancelRun"
  /\ recv["p1"][2] = HttpResponse(404, "Not Found", NotFoundBody)
  /\ recv["p1"][3] = HttpResponse(200, "OK", EmptyObjectBody)
  /\ recv["p2"][3] = NetworkFailure
  /\ ProcessedLast = "p1"
  /\ GetLastError(lastError).message = FailureMessage(NetworkFailure)
  /\ GetLastError(lastError).message # LastOwnFailure("p1")

\* The identifiers of the first n runs, as the sections show them
RECURSIVE FirstIds(_, _)
FirstIds(runs, n) ==
  IF n <= 0 \/ runs = <<>> THEN <<>>
  ELSE <<Lit(Get(Head(runs), "run_id").s)>> \o FirstIds(Tail(runs), n - 1)

\* C28 as stated: for every limit accepted by the input schema of
\* get_event_runs and every non-empty list of runs returned by the client, the
\* rendered text contains at most limit run sections (the first ones of the
\* list, in order) while the "Total runs" line reports the full number of runs;
\* an empty list renders only the "No runs found" line.
C28_AtMostLimitSections ==
  \A c \in Procs :
    ( /\ call[c].via = "get_event_runs"
      /\ pc[c] = "done"
      /\ result[c].kind = "return"
      /\ result[c].val.t = "array" ) =>
      LET runs == result[c].val.a
          text == reply[c].text
          headings == PartsAfter(text, Lit("## Run "))
          ids == PartsAfter(text, Lit("**Run ID:** "))
      IN IF runs = <<>>
         THEN text = <<Lit("No runs found for event ID: "), Lit(call[c].eventId)>>
         ELSE /\ Len(headings) <= call[c].limit
              /\ Len(ids) = Len(headings)
              /\ headings = [i \in 1..Len(headings) |-> Lit(ToString(i))]
              /\ ids = FirstIds(runs, Len(ids))
              /\ PartsAfter(text, Lit("**Total runs:** ")) = <<Lit(ToString(Len(runs)))>>

\* The client operations invocation c has called so far
ClientCalls(c) == {i \in DOMAIN log : log[i] = <<c, "begin">>}

\* The last segment of the path of a request
LastSegment(req) == req.url[Len(req.url)]

\* C29: one invocation of manage_run calls exactly one client operation,
\* exactly once: cancelRun and never replayRun for the action "cancel",
\* replayRun and never cancelRun for the action "replay"; the text
\* "Cancelled run <id>" or "Replayed run <id>" is returned only if that client
\* call has succeeded.
C29_ManageRunCallsOneOperation ==
  \A c \in Procs :
    ( /\ request[c] # NoRequest
      /\ request[c].tool = "manage_run"
      /\ MatchesDeclaredShape("manage_run", request[c].args)
      /\ pc[c] # "idle" ) =>
      LET action == Get(request[c].args, "action").s
          runId == Get(request[c].args, "runId").s
      IN /\ Cardinality(ClientCalls(c)) = 1
         /\ call[c].runId = runId
         /\ action = "cancel" =>
              /\ call[c].op = "cancelRun"
              /\ \A i \in DOMAIN sent[c] : LastSegment(sent[c][i]) = "/cancel"
         /\ action = "replay" =>
              /\ call[c].op = "replayRun"
              /\ \A i \in DOMAIN sent[c] : LastSegment(sent[c][i]) \in {"/replay", "/retry"}
         /\ reply[c] \in {TextContent(<<Lit("Cancelled run "), Lit(runId)>>),
                          TextContent(<<Lit("Replayed run "), Lit(runId)>>)} =>
              /\ pc[c] = "done"
              /\ result[c].kind = "return"
              /\ reply[c].text[1] = Lit(IF action = "cancel" THEN "Cancelled run "
                                        ELSE "Replayed run ")
         /\ (pc[c] = "done" /\ result[c].kind = "throw") =>
              reply[c].text[1] = Lit("Error managing run: ")

\* manage_run with the action "replay" has answered "Replayed run run-1"
\* after the first retry path succeeded.
C29_Witness ==
  /\ request["p1"] # NoRequest
  /\ request["p1"].tool = "manage_run"
  /\ call["p1"].op = "replayRun"
  /\ pc["p1"] = "done"
  /\ Len(recv["p1"]) = 4
  /\ reply["p1"] = TextContent(<<Lit("Replayed run "), Lit("run-1")>>)

====
